---- MODULE Spec2Model ----
(***************************************************************************)
(* A model of the all-the-predictions ATP pipeline: the match UID          *)
(* generator and the record validators (atp/schemas.py), the player-id     *)
(* correction table (atp/player_id_corrections.py), the atomic save path   *)
(* of BaseJob (atp/base_job.py) and the schedule consolidation             *)
(* (atp/tournament/schedule.py).                                           *)
(*                                                                         *)
(* Python strings are TLA+ strings; a character is a string of length 1.   *)
(* None is the model value NONE (the string "<None>", which no input       *)
(* string equals).                                                         *)
(***************************************************************************)
EXTENDS Integers, Sequences, FiniteSets, TLC

VARIABLES
    uidArgs,    \* arguments of the first create_match_uid call, or NONE
    uidRes,     \* its outcome
    uidArgs2,   \* arguments of the follow-up call (swapped / re-cased / repeated)
    uidRes2,    \* its outcome
    uidKind,    \* which follow-up call was made
    rec,        \* outcome of the last record construction
    recUid,     \* outcome of reading that record's match_uid (model_dump reads it)
    recStage,   \* "none", "constructed" (a record or a ValidationError), "read"
    fs,         \* the data directory: path -> content of the file, or ABSENT
    savePc,     \* where the running save_json / save_parquet / save_html call is
    saveCall,   \* its arguments, and the directory as it was when it was called
    saveExc,    \* the exception raised inside its try block ("" when none)
    saveSeen,   \* the exception that reached the caller ("" when none)
    saveCount,  \* calls made so far
    tree,       \* the stage tier of one tournament: a set of [dir, name, rows]
    schedRuns,  \* ScheduleTransformer.run calls made so far
    schedLast,  \* how the latest one ended: "none", "noop", "raised", "saved"
    schedOut0,  \* schedule.parquet as it was before the latest run
    schedTrace, \* the latest run's rows after _dedup_matches and _transform_row
    corr,       \* the last correct_player_id call, and the call on its result
    resRec,     \* the last ResultsRecord(**kwargs): the kwargs and the outcome
    dbl,        \* the last construction of one of the four record classes
    job,        \* the latest run of a job: what it listed, tried and wrote
    jobRuns,    \* runs of the extractor, stager and transformer jobs so far
    call        \* the last call of a parsing function: its name, arguments, result

uidVars == <<uidArgs, uidRes, uidArgs2, uidRes2, uidKind>>
recVars == <<rec, recUid, recStage>>
saveVars == <<fs, savePc, saveCall, saveExc, saveSeen, saveCount>>
schedVars == <<tree, schedRuns, schedLast, schedOut0, schedTrace>>
schemaVars == <<corr, resRec, dbl>>
jobVars == <<job, jobRuns>>
callVars == <<call>>
vars == <<uidVars, recVars, saveVars, schedVars, schemaVars, jobVars, callVars>>

NONE == "<None>"

\* the one element of a singleton: Only({e : v \in {x}}) is e with the local
\* name v bound to the value of x
Only(S) == CHOOSE y \in S : TRUE

(***************************************************************************)
(* Strings                                                                 *)
(***************************************************************************)
DIGITS == "0123456789"
UPPERCASE == "ABCDEFGHIJKLMNOPQRSTUVWXYZ"
LOWERCASE == "abcdefghijklmnopqrstuvwxyz"

CharAt(s, i) == SubSeq(s, i, i)

\* the characters of a string, as a set
Chars(s) == {CharAt(s, i) : i \in 1..Len(s)}
DigitChars == Chars(DIGITS)
UpperChars == Chars(UPPERCASE)
LowerChars == Chars(LOWERCASE)

Contains(s, c) == \E i \in 1..Len(s) : CharAt(s, i) = c

IndexIn(c, s) == CHOOSE i \in 1..Len(s) : CharAt(s, i) = c

\* ord(c) for the characters the model uses (ASCII code points).
Ord(c) ==
    IF c \in DigitChars THEN 47 + IndexIn(c, DIGITS)
    ELSE IF c \in UpperChars THEN 64 + IndexIn(c, UPPERCASE)
    ELSE IF c \in LowerChars THEN 96 + IndexIn(c, LOWERCASE)
    ELSE IF c = "\n" THEN 10
    ELSE IF c = " " THEN 32
    ELSE IF c = "-" THEN 45
    ELSE IF c = ":" THEN 58
    ELSE 95   \* "_"

\* str.upper() / str.lower(), character by character
UpperChar(c) ==
    IF c \in LowerChars THEN CharAt(UPPERCASE, IndexIn(c, LOWERCASE)) ELSE c

LowerChar(c) ==
    IF c \in UpperChars THEN CharAt(LOWERCASE, IndexIn(c, UPPERCASE)) ELSE c

RECURSIVE Upper(_)
Upper(s) == IF s = "" THEN "" ELSE UpperChar(Head(s)) \o Upper(Tail(s))

RECURSIVE Lower(_)
Lower(s) == IF s = "" THEN "" ELSE LowerChar(Head(s)) \o Lower(Tail(s))

\* Python's str < str: lexicographic by code point, a proper prefix is smaller.
RECURSIVE StrLess(_, _)
StrLess(a, b) ==
    IF b = "" THEN FALSE
    ELSE IF a = "" THEN TRUE
    ELSE IF Head(a) = Head(b) THEN StrLess(Tail(a), Tail(b))
    ELSE Ord(Head(a)) < Ord(Head(b))

\* str(n) of a Python int
RECURSIVE NatToStr(_)
NatToStr(n) ==
    IF n < 10 THEN CharAt(DIGITS, n + 1)
    ELSE NatToStr(n \div 10) \o CharAt(DIGITS, (n % 10) + 1)

IntToStr(n) == IF n < 0 THEN "-" \o NatToStr(-n) ELSE NatToStr(n)

\* s.split(sep) for a one-character separator
RECURSIVE SplitFrom(_, _, _)
SplitFrom(s, sep, cur) ==
    IF s = "" THEN <<cur>>
    ELSE IF Head(s) = sep THEN <<cur>> \o SplitFrom(Tail(s), sep, "")
    ELSE SplitFrom(Tail(s), sep, cur \o Head(s))

Split(s, sep) == SplitFrom(s, sep, "")

AllIn(s, class) == \A i \in 1..Len(s) : CharAt(s, i) \in class

(***************************************************************************)
(* atp/schemas.py: Round, MATCH_UID_PATTERN, create_match_uid              *)
(***************************************************************************)
\* Round: the value of every member equals its name
Round ==
    {"F", "SF", "QF", "R16", "R32", "R64", "R128", "RR", "Q3", "Q2", "Q1",
     "BRONZE", "THIRDPLACE"}

ALNUM == UpperChars \cup DigitChars

\* ^\d{4}_\d+_(?:SGL|DBL)_[A-Z0-9]+_[A-Z0-9]+_[A-Z0-9]+ followed by the end of
\* the string: no class of the pattern holds "_", so the six fields are the
\* pieces between the underscores.
FullPattern(s) ==
    LET f == Split(s, "_") IN
        /\ Len(f) = 6
        /\ Len(f[1]) = 4 /\ AllIn(f[1], DigitChars)
        /\ Len(f[2]) >= 1 /\ AllIn(f[2], DigitChars)
        /\ f[3] \in {"SGL", "DBL"}
        /\ \A k \in 4..6 : Len(f[k]) >= 1 /\ AllIn(f[k], ALNUM)

\* MATCH_UID_PATTERN.match(s): re.match anchors at the start; "$" (without
\* re.MULTILINE) matches at the end of the string and also just before a
\* newline that is the last character of the string.
MATCH_UID_PATTERN(s) ==
    \/ FullPattern(s)
    \/ /\ Len(s) >= 1
       /\ CharAt(s, Len(s)) = "\n"
       /\ FullPattern(SubSeq(s, 1, Len(s) - 1))

\* sorted([a, b]) of two strings (stable)
Sorted2_Unsorted(a, b) == <<a, b>>

Sorted2(a, b) == IF StrLess(b, a) THEN <<b, a>> ELSE <<a, b>>

\* sorted([p1_id.upper(), p2_id.upper()])
SortedUpperIds(p1_id, p2_id) == Sorted2(Upper(p1_id), Upper(p2_id))

Returned(v) == [ok |-> TRUE, value |-> v, bad_ids |-> <<>>, hint |-> ""]
Raised(v, bad, hint) == [ok |-> FALSE, value |-> v, bad_ids |-> bad, hint |-> hint]

HINT == "add correction to atp/player_id_corrections.py."

\* a faulty variant of create_match_uid: the draw is not part of the key
create_match_uid_OneDraw(year, tournament_id, round, p1_id, p2_id, is_doubles) ==
    LET ids == SortedUpperIds(p1_id, p2_id)
        match_uid == IntToStr(year) \o "_" \o IntToStr(tournament_id) \o "_SGL_"
                     \o round \o "_" \o ids[1] \o "_" \o ids[2]
    IN  IF ~MATCH_UID_PATTERN(match_uid) THEN Raised(match_uid, <<>>, "")
        ELSE Returned(match_uid)

\* create_match_uid(year, tournament_id, round, p1_id, p2_id, is_doubles):
\* the returned string, or ValueError("Generated invalid match_uid: <value>.<hint>")
create_match_uid(year, tournament_id, round, p1_id, p2_id, is_doubles) ==
    LET draw == IF is_doubles THEN "DBL" ELSE "SGL"
        ids == SortedUpperIds(p1_id, p2_id)
        player_ids == ids[1] \o "_" \o ids[2]
        match_uid == IntToStr(year) \o "_" \o IntToStr(tournament_id) \o "_" \o draw
                     \o "_" \o round \o "_" \o player_ids
        bad_ids == SelectSeq(<<p1_id, p2_id>>, LAMBDA pid : Contains(pid, ":"))
        hint == IF Len(bad_ids) > 0 THEN HINT ELSE ""
    IN  IF ~MATCH_UID_PATTERN(match_uid)
        THEN Raised(match_uid, bad_ids, hint)
        ELSE Returned(match_uid)

(***************************************************************************)
(* Inputs of the UID specification                                         *)
(***************************************************************************)
MaxIdLen == 2

IdAlphabet == {"A", "a", "z", "7", ":", " ", "_", "\n"}

RECURSIVE IdsOfLen(_)
IdsOfLen(n) ==
    IF n = 0 THEN {""}
    ELSE {s \o c : s \in IdsOfLen(n - 1), c \in IdAlphabet}

PlayerIds == UNION {IdsOfLen(n) : n \in 0..MaxIdLen}

\* the other side of the match: well-formed, lower-case, ill-formed, newline-ended
OpponentIds == {"M0", "m0", "", "SR:1", "Q\n"}

UidYears == {2025, 2026}
UidTournamentIds == {375}
UidRounds == {"F", "R128"}

UidCall(y, t, r, a, b, d) ==
    [year |-> y, tournament_id |-> t, round |-> r, p1_id |-> a, p2_id |-> b,
     is_doubles |-> d]

CallOf(c) ==
    create_match_uid(c.year, c.tournament_id, c.round, c.p1_id, c.p2_id, c.is_doubles)

NoCall == UidCall(0, 0, "", "", "", FALSE)
NoResult == Raised("", <<>>, "")

UidInit ==
    /\ uidArgs = NoCall /\ uidRes = NoResult
    /\ uidArgs2 = NoCall /\ uidRes2 = NoResult
    /\ uidKind = "none"


\* a first call create_match_uid(y, t, r, a, b, d)
FirstCall ==
    /\ uidKind = "none"
    /\ \E y \in UidYears, t \in UidTournamentIds, r \in UidRounds, d \in BOOLEAN,
          a \in PlayerIds, b \in OpponentIds :
            /\ uidArgs' = UidCall(y, t, r, a, b, d)
            /\ uidRes' = CallOf(uidArgs')
    /\ uidKind' = "first"
    /\ UNCHANGED <<uidArgs2, uidRes2, recVars, saveVars, schedVars, schemaVars, jobVars, callVars>>

\* the same match with the two sides exchanged
SwappedCall ==
    /\ uidKind = "first"
    /\ uidArgs2' = [uidArgs EXCEPT !.p1_id = uidArgs.p2_id, !.p2_id = uidArgs.p1_id]
    /\ uidRes2' = CallOf(uidArgs2')
    /\ uidKind' = "swapped"
    /\ UNCHANGED <<uidArgs, uidRes, recVars, saveVars, schedVars, schemaVars, jobVars, callVars>>

\* the same match with the ids in another letter case
RecasedCall ==
    /\ uidKind = "first"
    /\ \E a \in {Upper(uidArgs.p1_id), Lower(uidArgs.p1_id), uidArgs.p1_id},
          b \in {Upper(uidArgs.p2_id), Lower(uidArgs.p2_id), uidArgs.p2_id} :
            /\ <<a, b>> # <<uidArgs.p1_id, uidArgs.p2_id>>
            /\ uidArgs2' = [uidArgs EXCEPT !.p1_id = a, !.p2_id = b]
    /\ uidRes2' = CallOf(uidArgs2')
    /\ uidKind' = "recased"
    /\ UNCHANGED <<uidArgs, uidRes, recVars, saveVars, schedVars, schemaVars, jobVars, callVars>>

\* the same call again
RepeatedCall ==
    /\ uidKind = "first"
    /\ uidArgs2' = uidArgs
    /\ uidRes2' = CallOf(uidArgs2')
    /\ uidKind' = "repeated"
    /\ UNCHANGED <<uidArgs, uidRes, recVars, saveVars, schedVars, schemaVars, jobVars, callVars>>

UidNext == FirstCall \/ SwappedCall \/ RecasedCall \/ RepeatedCall

\* The outcome a caller observes: the returned string, or that it raised.
Outcome(res) == IF res.ok THEN <<"returned", res.value>> ELSE <<"raised">>

\* C1: create_match_uid(y,t,r,A,B,d) and create_match_uid(y,t,r,B,A,d) both
\* raise or both return the same string; the outcome does not depend on the
\* letter case of A and B; a repeated call returns the same string.
C1_UidSymmetricCaseBlindStable ==
    uidKind \in {"swapped", "recased", "repeated"} => Outcome(uidRes2) = Outcome(uidRes)

\* C1 witness: a swapped call whose sides really differ returned a UID, and so
\* did the first call.
C1_Witness ==
    /\ uidKind = "swapped"
    /\ Upper(uidArgs.p1_id) # Upper(uidArgs.p2_id)
    /\ StrLess(Upper(uidArgs.p2_id), Upper(uidArgs.p1_id))
    /\ uidRes.ok /\ uidRes2.ok

\* C2 (as claimed): create_match_uid returns only strings of the form
\* <4-digit year>_<digits>_<SGL|DBL>_<alnum round>_<alnum id>_<alnum id>, and
\* raises whenever the composed key does not have that form.
C2_OnlyWellFormedReturned ==
    uidKind = "first" => (uidRes.ok <=> FullPattern(uidRes.value))

(***************************************************************************)
(* atp/player_id_corrections.py                                            *)
(***************************************************************************)
\* (bad_id_uppercased, tournament_id, year) -> correct_4char_id
_CORRECTIONS ==
    [k \in {<<"SR:COMPETITOR:972327", 580, 2026>>,
            <<"SR:COMPETITOR:1055851", 580, 2026>>,
            <<"SR:COMPETITOR:59700", 580, 2026>>,
            <<"SR:COMPETITOR:145936", 580, 2026>>,
            <<"SR:COMPETITOR:637610", 8096, 2026>>,
            <<"SR:COMPETITOR:1021133", 8096, 2026>>,
            <<"SR:COMPETITOR:915589", 8096, 2026>>,
            <<"SR:COMPETITOR:915951", 8096, 2026>>,
            <<"SR:COMPETITOR:617530", 8096, 2026>>,
            <<"SR:COMPETITOR:168420", 8096, 2026>>} |->
        CASE k[1] = "SR:COMPETITOR:972327" -> "J0DZ"
          [] k[1] = "SR:COMPETITOR:1055851" -> "H0K0"
          [] k[1] = "SR:COMPETITOR:59700" -> "I326"
          [] k[1] = "SR:COMPETITOR:145936" -> "KH77"
          [] k[1] = "SR:COMPETITOR:637610" -> "O0BI"
          [] k[1] = "SR:COMPETITOR:1021133" -> "M0UR"
          [] k[1] = "SR:COMPETITOR:915589" -> "V0GR"
          [] k[1] = "SR:COMPETITOR:915951" -> "R0IL"
          [] k[1] = "SR:COMPETITOR:617530" -> "W0BU"
          [] OTHER -> "AG08"]

\* a faulty variant of correct_player_id: the key keeps the case of the id
correct_player_id_CaseSensitive(player_id, tournament_id, year) ==
    IF ~Contains(player_id, ":") THEN player_id
    ELSE LET key == <<player_id, tournament_id, year>> IN
         IF key \in DOMAIN _CORRECTIONS THEN _CORRECTIONS[key] ELSE player_id

\* correct_player_id(player_id, tournament_id, year): the mapped id, else the id
\* itself (with a warning in the log when it holds a colon)
correct_player_id(player_id, tournament_id, year) ==
    IF ~Contains(player_id, ":") THEN player_id
    ELSE LET key == <<Upper(player_id), tournament_id, year>> IN
         IF key \in DOMAIN _CORRECTIONS THEN _CORRECTIONS[key] ELSE player_id

(***************************************************************************)
(* atp/schemas.py: ScheduleRecord, ResultsRecord, MatchStatsRecord         *)
(*                                                                         *)
(* Constructing a pydantic model validates the fields (the mode="before"   *)
(* validators first), then runs the mode="after" model validators in the   *)
(* order of their definition.  A @computed_field property is not part of   *)
(* that: its body runs when the attribute is read, which model_dump()      *)
(* does.                                                                   *)
(***************************************************************************)
\* _uppercase_or_none
_uppercase_or_none(v) == IF v = NONE THEN NONE ELSE Upper(v)

\* _correct_player_ids, for one field
CorrectedField(v, tournament_id, year) ==
    IF v = NONE THEN NONE ELSE correct_player_id(v, tournament_id, year)

\* _validate_doubles_partners of ScheduleRecord, ResultsRecord and
\* MatchStatsRecord: the message of the ValueError, or "" when the rule holds
_validate_doubles_partners(r) ==
    IF r.is_doubles
    THEN IF r.a_partner_id = NONE THEN "Doubles match must have partner id (first side)"
         ELSE IF r.b_partner_id = NONE THEN "Doubles match must have partner id (second side)"
         ELSE ""
    ELSE IF \E f \in {r.a_partner_id, r.a_partner_name, r.b_partner_id, r.b_partner_name} :
                f # NONE
         THEN "Singles match must not have partner fields"
         ELSE ""

\* ScheduleRecord._validate_time_estimated; start_time_utc is <<>> (None) or <<t>>
_validate_time_estimated(r) ==
    IF ~r.time_estimated /\ r.start_time_utc = <<>>
    THEN "start_time_utc is required when time_estimated is False"
    ELSE ""

\* A record of one of the three classes.  a_id / b_id stand for p1_id / p2_id
\* (ScheduleRecord), winner_id / loser_id (ResultsRecord) and player_id /
\* opponent_id (MatchStatsRecord), and likewise for the partner fields.
RecordClasses == {"ScheduleRecord", "ResultsRecord", "MatchStatsRecord"}

Constructed(r) == [ok |-> TRUE, error |-> "", record |-> r]
ValidationError(msg, r) == [ok |-> FALSE, error |-> msg, record |-> r]

\* the mode="before" field validators, then _correct_player_ids
NormalisedIds(kwargs) ==
    [kwargs EXCEPT
        !.a_id = CorrectedField(_uppercase_or_none(@), kwargs.tournament_id, kwargs.year),
        !.b_id = CorrectedField(_uppercase_or_none(@), kwargs.tournament_id, kwargs.year),
        !.a_partner_id =
            CorrectedField(_uppercase_or_none(@), kwargs.tournament_id, kwargs.year),
        !.b_partner_id =
            CorrectedField(_uppercase_or_none(@), kwargs.tournament_id, kwargs.year)]

\* the checks that can raise: the ids are required strings, then the
\* mode="after" validators in the order of their definition
Validated(co) ==
    IF co.a_id = NONE \/ co.b_id = NONE
    THEN ValidationError("Input should be a valid string", co)
    ELSE IF co.cls = "ScheduleRecord" /\ _validate_time_estimated(co) # ""
    THEN ValidationError(_validate_time_estimated(co), co)
    ELSE IF _validate_doubles_partners(co) # ""
    THEN ValidationError(_validate_doubles_partners(co), co)
    ELSE Constructed(co)

\* cls(**kwargs): the record, or the ValidationError
Construct(kwargs) == Only({Validated(co) : co \in {NormalisedIds(kwargs)}})

\* the match_uid property
match_uid(r) ==
    create_match_uid(r.year, r.tournament_id, r.round, r.a_id, r.b_id, r.is_doubles)

(***************************************************************************)
(* Inputs of the record specification                                      *)
(***************************************************************************)
RecIds ==
    {"AB12", "cd34", "SR:COMPETITOR:972327", "sr:competitor:59700",
     "SR:COMPETITOR:1", "AB 12"}
RecYears == {2025, 2026}
RecTournamentIds == {375, 580}
RecPartners == {<<NONE, NONE>>, <<"EF56", "E. Partner">>, <<NONE, "E. Partner">>}
RecTimes == {<<>>, <<600>>}

NoRecord ==
    [ok |-> FALSE, error |-> "", record |->
        [cls |-> "none", tournament_id |-> 0, year |-> 0, round |-> "",
         is_doubles |-> FALSE, a_id |-> NONE, b_id |-> NONE,
         a_partner_id |-> NONE, a_partner_name |-> NONE,
         b_partner_id |-> NONE, b_partner_name |-> NONE,
         time_estimated |-> TRUE, start_time_utc |-> <<>>]]

RecInit == rec = NoRecord /\ recUid = NoResult /\ recStage = "none"

\* ScheduleRecord(**kwargs), ResultsRecord(**kwargs) or MatchStatsRecord(**kwargs)
ConstructRecord ==
    /\ recStage = "none"
    /\ \E cls \in RecordClasses, t \in RecTournamentIds, y \in RecYears,
          d \in BOOLEAN, a \in RecIds, b \in RecIds \ {"sr:competitor:59700", "AB 12"},
          pa \in RecPartners, pb \in RecPartners, est \in BOOLEAN, st \in RecTimes :
            /\ Upper(a) # Upper(b)
            /\ cls # "ScheduleRecord" => (est /\ st = <<>>)
            /\ rec' = Construct(
                 [cls |-> cls, tournament_id |-> t, year |-> y, round |-> "QF",
                  is_doubles |-> d, a_id |-> a, b_id |-> b,
                  a_partner_id |-> pa[1], a_partner_name |-> pa[2],
                  b_partner_id |-> pb[1], b_partner_name |-> pb[2],
                  time_estimated |-> est, start_time_utc |-> st])
    /\ recStage' = "constructed"
    /\ UNCHANGED <<recUid, uidVars, saveVars, schedVars, schemaVars, jobVars, callVars>>

\* record.match_uid, which record.model_dump() reads too
ReadMatchUid ==
    /\ recStage = "constructed"
    /\ rec.ok
    /\ recUid' = match_uid(rec.record)
    /\ recStage' = "read"
    /\ UNCHANGED <<rec, uidVars, saveVars, schedVars, schemaVars, jobVars, callVars>>

RecNext == ConstructRecord \/ ReadMatchUid

\* C3 (as claimed): every successfully constructed ScheduleRecord,
\* ResultsRecord or MatchStatsRecord has a match_uid that can be computed and
\* matches the UID pattern; a player id from which no valid UID can be formed
\* makes the construction raise.
C3_ConstructedRecordHasValidUid ==
    recStage = "read" => (recUid.ok /\ MATCH_UID_PATTERN(recUid.value))

(***************************************************************************)
(* atp/base_job.py: save_json, save_parquet, save_html                     *)
(*                                                                         *)
(* The three methods have one shape: tmp_path = path + ".tmp"; inside try, *)
(* the content is written to tmp_path and tmp_path.replace(path) renames   *)
(* it over the target; except Exception removes tmp_path if it exists and  *)
(* re-raises.  A file's content is a string, written one character at a    *)
(* time; the process can die between any two steps.                        *)
(***************************************************************************)
ABSENT == NONE

MaxSaves == 3

SaveKinds == {"save_json", "save_parquet", "save_html"}

\* the target each method is called with
TargetOf(kind) ==
    CASE kind = "save_json" -> "data.json"
      [] kind = "save_parquet" -> "schedule.parquet"
      [] OTHER -> "schedule.html"

\* path.with_suffix(path.suffix + ".tmp")
tmp_path_InPlace(path) == path

tmp_path(path) == path \o ".tmp"

Paths == {TargetOf(k) : k \in SaveKinds} \cup {tmp_path(TargetOf(k)) : k \in SaveKinds}

\* contents handed to a save call
Payloads == {"ab", "xyz"}

\* what a failing step raises
Exceptions == {"TypeError", "OSError"}

NoSave == [kind |-> "none", path |-> "", data |-> "", fs0 |-> [p \in Paths |-> ABSENT]]

SaveInit ==
    /\ fs = [p \in Paths |-> ABSENT]
    /\ savePc = "idle"
    /\ saveCall = NoSave
    /\ saveExc = ""
    /\ saveSeen = ""
    /\ saveCount = 0

\* save_*(data, path): the call is entered (tmp_path computed, parent created)
SaveCall ==
    /\ savePc \in {"idle", "returned", "raised", "crashed"}
    /\ saveCount < MaxSaves
    /\ \E k \in SaveKinds, d \in Payloads :
         saveCall' = [kind |-> k, path |-> TargetOf(k), data |-> d, fs0 |-> fs]
    /\ savePc' = "open"
    /\ saveExc' = ""
    /\ saveSeen' = ""
    /\ saveCount' = saveCount + 1
    /\ UNCHANGED <<fs, uidVars, recVars, schedVars, schemaVars, jobVars, callVars>>

\* tmp_path.open("w") / write_parquet creating the file: tmp_path is created
\* empty, or truncated when a stale one exists
SaveOpen ==
    /\ savePc = "open"
    /\ fs' = [fs EXCEPT ![tmp_path(saveCall.path)] = ""]
    /\ savePc' = "write"
    /\ UNCHANGED <<saveCall, saveExc, saveSeen, saveCount, uidVars, recVars, schedVars, schemaVars, jobVars, callVars>>

\* json.dump / f.write / write_parquet: the next piece of the content reaches
\* tmp_path (save_html hands the whole content to one f.write)
SaveWrite ==
    /\ savePc = "write"
    /\ LET tmp == tmp_path(saveCall.path)
           done == Len(fs[tmp])
           upto == IF saveCall.kind = "save_html" THEN Len(saveCall.data) ELSE done + 1
       IN  /\ done < Len(saveCall.data)
           /\ fs' = [fs EXCEPT ![tmp] = SubSeq(saveCall.data, 1, upto)]
           /\ savePc' = IF upto = Len(saveCall.data) THEN "replace" ELSE "write"
    /\ UNCHANGED <<saveCall, saveExc, saveSeen, saveCount, uidVars, recVars, schedVars, schemaVars, jobVars, callVars>>

\* tmp_path.replace(path): one atomic rename over the target
SaveReplace ==
    /\ savePc = "replace"
    /\ LET tmp == tmp_path(saveCall.path) IN
         fs' = [p \in Paths |->
                  IF p = saveCall.path THEN fs[tmp]
                  ELSE IF p = tmp THEN ABSENT
                  ELSE fs[p]]
    /\ savePc' = "returned"
    /\ UNCHANGED <<saveCall, saveExc, saveSeen, saveCount, uidVars, recVars, schedVars, schemaVars, jobVars, callVars>>

\* a step inside the try block raises: opening, writing (also part-way) or
\* renaming
SaveFail ==
    /\ savePc \in {"open", "write", "replace"}
    /\ \E e \in Exceptions : saveExc' = e
    /\ savePc' = "except"
    /\ UNCHANGED <<fs, saveCall, saveSeen, saveCount, uidVars, recVars, schedVars, schemaVars, jobVars, callVars>>

\* except Exception: if tmp_path.exists(): tmp_path.unlink(); raise
SaveExcept_NoUnlink ==
    /\ savePc = "except"
    /\ saveSeen' = saveExc
    /\ savePc' = "raised"
    /\ UNCHANGED <<fs, saveCall, saveExc, saveCount, uidVars, recVars, schedVars, schemaVars, jobVars, callVars>>

SaveExcept ==
    /\ savePc = "except"
    /\ LET tmp == tmp_path(saveCall.path) IN
         fs' = IF fs[tmp] # ABSENT THEN [fs EXCEPT ![tmp] = ABSENT] ELSE fs
    /\ saveSeen' = saveExc
    /\ savePc' = "raised"
    /\ UNCHANGED <<saveCall, saveExc, saveCount, uidVars, recVars, schedVars, schemaVars, jobVars, callVars>>

\* the process dies (power loss, kill) before the next step
SaveCrash ==
    /\ savePc \in {"open", "write", "replace", "except"}
    /\ savePc' = "crashed"
    /\ UNCHANGED <<fs, saveCall, saveExc, saveSeen, saveCount, uidVars, recVars, schedVars, schemaVars, jobVars, callVars>>

SaveNext == SaveCall \/ SaveOpen \/ SaveWrite \/ SaveReplace \/ SaveFail \/ SaveExcept \/ SaveCrash

\* C4: throughout save_json, save_html and save_parquet, and after a crash at
\* any step, the target is absent / holds its prior content, or holds the
\* complete new content; no other target is touched, so partial data can only
\* be in the sibling .tmp file.
C4_TargetNeverPartial ==
    savePc # "idle" =>
        /\ fs[saveCall.path] \in {saveCall.fs0[saveCall.path], saveCall.data}
        /\ \A k \in SaveKinds :
             TargetOf(k) # saveCall.path => fs[TargetOf(k)] = saveCall.fs0[TargetOf(k)]

\* C4 witness: a save crashed with a partly written temp file beside a target
\* that still holds the content of an earlier save.
C4_Witness ==
    /\ savePc = "crashed"
    /\ saveCall.fs0[saveCall.path] # ABSENT
    /\ fs[saveCall.path] = saveCall.fs0[saveCall.path]
    /\ fs[saveCall.path \o ".tmp"] \notin {ABSENT, "", saveCall.data}

\* C5: when writing the temp file or renaming it raised, then once the call has
\* returned control the target has its pre-call content (or is still absent),
\* no .tmp file of the target remains, and the caller gets the original
\* exception.
C5_FailureLeavesPriorAndNoTmp ==
    savePc = "raised" =>
        /\ fs[saveCall.path] = saveCall.fs0[saveCall.path]
        /\ fs[saveCall.path \o ".tmp"] = ABSENT
        /\ saveSeen = saveExc /\ saveExc \in Exceptions

\* C5 witness: a write raised part-way over an existing target, and the call
\* has raised to its caller.
C5_Witness ==
    /\ savePc = "raised"
    /\ saveCall.fs0[saveCall.path] \in Payloads
    /\ saveCall.fs0[saveCall.path] # saveCall.data
    /\ saveCall.fs0[saveCall.path \o ".tmp"] # ABSENT

(***************************************************************************)
(* datetime: strptime, timedelta                                           *)
(*                                                                         *)
(* A datetime is <<day ordinal, second of the day>> (date.toordinal(): day  *)
(* 1 is 0001-01-01); a timedelta is a number of seconds.  An optional      *)
(* datetime is <<>> (None) or <<t>>.                                       *)
(***************************************************************************)
RECURSIVE StrToNat(_)
StrToNat(s) ==
    IF s = "" THEN 0
    ELSE 10 * StrToNat(SubSeq(s, 1, Len(s) - 1)) + (IndexIn(CharAt(s, Len(s)), DIGITS) - 1)

IsLeap(y) == (y % 4 = 0 /\ y % 100 # 0) \/ y % 400 = 0

DaysInMonth(y, m) ==
    IF m = 2 THEN (IF IsLeap(y) THEN 29 ELSE 28)
    ELSE IF m \in {4, 6, 9, 11} THEN 30 ELSE 31

RECURSIVE DaysBeforeMonth(_, _)
DaysBeforeMonth(y, m) ==
    IF m = 1 THEN 0 ELSE DaysBeforeMonth(y, m - 1) + DaysInMonth(y, m - 1)

\* date(y, m, d).toordinal()
ToOrdinal(y, m, d) ==
    LET p == y - 1 IN
        p * 365 + (p \div 4) - (p \div 100) + (p \div 400) + DaysBeforeMonth(y, m) + d

\* datetime(y, m, d, hh, mm, ss)
DateTime(y, m, d, hh, mm, ss) == <<ToOrdinal(y, m, d), hh * 3600 + mm * 60 + ss>>

\* datetime + timedelta
DtAdd(t, delta) ==
    LET sec == t[2] + delta IN <<t[1] + (sec \div 86400), sec % 86400>>

\* datetime > datetime
DtGreater(a, b) == a[1] > b[1] \/ (a[1] = b[1] /\ a[2] > b[2])

\* timedelta(hours=h, minutes=m)
timedelta(h, m) == h * 3600 + m * 60

NumField(s, maxlen) == Len(s) >= 1 /\ Len(s) <= maxlen /\ AllIn(s, DigitChars)

Parsed(t) == [ok |-> TRUE, value |-> t]
ParseError == [ok |-> FALSE, value |-> <<0, 0>>]

\* the six numeric fields of a timestamp -> datetime, or ValueError
FieldsToDateTime(f) ==
    IF /\ Len(f[1]) = 4 /\ AllIn(f[1], DigitChars)
       /\ \A k \in 2..6 : NumField(f[k], 2)
    THEN LET y == StrToNat(f[1])
             m == StrToNat(f[2])
             d == StrToNat(f[3])
             hh == StrToNat(f[4])
             mm == StrToNat(f[5])
             ss == StrToNat(f[6])
         IN  IF /\ y >= 1 /\ m \in 1..12 /\ d >= 1 /\ d <= DaysInMonth(y, m)
                /\ hh <= 23 /\ mm <= 59 /\ ss <= 61
             THEN Parsed(DateTime(y, m, d, hh, mm, IF ss > 59 THEN 59 ELSE ss))
             ELSE ParseError
    ELSE ParseError

\* datetime.strptime(s, "%Y-%m-%d %H:%M:%S")
strptime_iso(s) ==
    LET halves == Split(s, " ")
        d == IF Len(halves) = 2 THEN Split(halves[1], "-") ELSE <<>>
        t == IF Len(halves) = 2 THEN Split(halves[2], ":") ELSE <<>>
    IN  IF Len(d) = 3 /\ Len(t) = 3 THEN FieldsToDateTime(d \o t) ELSE ParseError

\* datetime.strptime(s, "%Y%m%d_%H%M%S"), for the fixed-width stamps of file names
strptime_stamp(s) ==
    IF Len(s) = 15 /\ CharAt(s, 9) = "_"
    THEN FieldsToDateTime(<<SubSeq(s, 1, 4), SubSeq(s, 5, 6), SubSeq(s, 7, 8),
                            SubSeq(s, 10, 11), SubSeq(s, 12, 13), SubSeq(s, 14, 15)>>)
    ELSE ParseError

\* date.fromisoformat(s) for "YYYY-MM-DD": the date (as midnight), or ValueError
fromisoformat(s) ==
    IF Len(s) = 10 /\ CharAt(s, 5) = "-" /\ CharAt(s, 8) = "-"
    THEN LET r == FieldsToDateTime(<<SubSeq(s, 1, 4), SubSeq(s, 6, 7), SubSeq(s, 9, 10),
                                     "0", "0", "0">>)
         IN  IF r.ok THEN Parsed(<<r.value[1], 0>>) ELSE ParseError
    ELSE ParseError

(***************************************************************************)
(* atp/tournament/schedule.py: ScheduleStager                              *)
(*                                                                         *)
(* A snapshot page is the sequence of its match tags.  Of a tag the model  *)
(* keeps what _parse_snapshot reads: the text of the <strong> court        *)
(* heading ("" when the tag has none), the round text, the two sides       *)
(* (an id of NONE on a side marked "possible"), data-datetime and          *)
(* data-suffix.  Names, seeds and entries are carried through the pipeline *)
(* untouched and are left out, except the partner names, which the         *)
(* validators read.                                                        *)
(***************************************************************************)
TOURNAMENT_ID == 375
YEAR == 2026
TournamentPath == "tournaments/tour/375_halle/2026"

\* _build_path(bucket, relative_path) and _build_path(bucket, relative_path, filename)
_build_path(bucket, relative_path) == bucket \o "/atptour/" \o relative_path

\* str.replace(old, "")
RECURSIVE RemoveAll(_, _)
RemoveAll(s, old) ==
    IF Len(s) < Len(old) \/ old = "" THEN s
    ELSE IF SubSeq(s, 1, Len(old)) = old THEN RemoveAll(SubSeq(s, Len(old) + 1, Len(s)), old)
    ELSE SubSeq(s, 1, 1) \o RemoveAll(Tail(s), old)

\* a faulty variant of Staged_validate_doubles_partners: the partner names of a
\* singles match are not looked at
Staged_validate_doubles_partners_IdsOnly(r) ==
    IF r.is_doubles
    THEN IF r.p1_id # NONE /\ r.p1_partner_id = NONE
         THEN "Doubles match with p1_id must have p1_partner_id"
         ELSE IF r.p2_id # NONE /\ r.p2_partner_id = NONE
         THEN "Doubles match with p2_id must have p2_partner_id"
         ELSE ""
    ELSE IF \E f \in {r.p1_partner_id, r.p2_partner_id} : f # NONE
         THEN "Singles match must not have partner fields"
         ELSE ""

\* StagedScheduleRecord._validate_doubles_partners: the message, or ""
Staged_validate_doubles_partners(r) ==
    IF r.is_doubles
    THEN IF r.p1_id # NONE /\ r.p1_partner_id = NONE
         THEN "Doubles match with p1_id must have p1_partner_id"
         ELSE IF r.p2_id # NONE /\ r.p2_partner_id = NONE
         THEN "Doubles match with p2_id must have p2_partner_id"
         ELSE ""
    ELSE IF \E f \in {r.p1_partner_id, r.p1_partner_name, r.p2_partner_id, r.p2_partner_name} :
                f # NONE
         THEN "Singles match must not have partner fields"
         ELSE ""

\* the mode="before" field validators and _correct_player_ids of
\* StagedScheduleRecord
Staged_NormalisedIds(kwargs) ==
    [kwargs EXCEPT
        !.p1_id = CorrectedField(_uppercase_or_none(@), kwargs.tournament_id, kwargs.year),
        !.p2_id = CorrectedField(_uppercase_or_none(@), kwargs.tournament_id, kwargs.year),
        !.p1_partner_id =
            CorrectedField(_uppercase_or_none(@), kwargs.tournament_id, kwargs.year),
        !.p2_partner_id =
            CorrectedField(_uppercase_or_none(@), kwargs.tournament_id, kwargs.year)]

\* _validate_doubles_partners of StagedScheduleRecord raising, or the record
Staged_Validated(co) ==
    IF Staged_validate_doubles_partners(co) # ""
    THEN ValidationError(Staged_validate_doubles_partners(co), co)
    ELSE Constructed(co)

\* StagedScheduleRecord(**kwargs)
StagedScheduleRecord(kwargs) ==
    Only({Staged_Validated(co) : co \in {Staged_NormalisedIds(kwargs)}})

\* current_court after a match tag: the <strong> heading that precedes it, if any
CourtOf(tag, current_court) == IF tag.strong # "" THEN tag.strong ELSE current_court

\* the tags passed over: no schedule-content, a match of the WTA, no round
TagSkipped(tag) == ~tag.content \/ tag.match_type = "WTA" \/ tag.round_text = ""

\* a faulty variant of NumOf: a tag that is passed over is not counted
NumOf_SkippedNotCounted(tag, court_match_num) ==
    IF tag.strong # "" THEN 1
    ELSE IF TagSkipped(tag) THEN court_match_num
    ELSE court_match_num + 1

\* court_match_num after a match tag: 1 under a heading, one more otherwise
NumOf(tag, court_match_num) == IF tag.strong # "" THEN 1 ELSE court_match_num + 1

\* the StagedScheduleRecord made from a match tag
TagRecord(tag, snapshot_dt, matchdate, tournament_day, court, num) ==
    StagedScheduleRecord(
        [snapshot_datetime |-> snapshot_dt,
         tournament_id |-> TOURNAMENT_ID, year |-> YEAR,
         match_date_str |-> matchdate,
         start_time_str |-> tag.datetime, time_suffix |-> tag.suffix,
         tournament_day |-> tournament_day,
         court_name |-> court, court_match_num |-> num,
         round_text |-> tag.round_text, is_doubles |-> tag.is_doubles,
         p1_id |-> tag.p1_id, p1_partner_id |-> tag.p1_partner_id,
         p1_partner_name |-> tag.p1_partner_name,
         p2_id |-> tag.p2_id, p2_partner_id |-> tag.p2_partner_id,
         p2_partner_name |-> tag.p2_partner_name])

\* The loop of _parse_snapshot over the match tags: current_court and
\* court_match_num are carried from tag to tag, the records are collected.
\* Gives [ok, records].
RECURSIVE ParseTags(_, _, _, _, _, _, _)
ParseTags(tags, snapshot_dt, matchdate, tournament_day, current_court, court_match_num, records) ==
    IF tags = <<>> THEN [ok |-> TRUE, records |-> records]
    ELSE IF TagSkipped(Head(tags))
    THEN ParseTags(Tail(tags), snapshot_dt, matchdate, tournament_day,
                   CourtOf(Head(tags), current_court),
                   NumOf(Head(tags), court_match_num), records)
    ELSE Only({
            IF ~record.ok THEN [ok |-> FALSE, records |-> <<>>]
            ELSE ParseTags(Tail(tags), snapshot_dt, matchdate, tournament_day,
                           CourtOf(Head(tags), current_court),
                           NumOf(Head(tags), court_match_num),
                           Append(records, record.record))
            : record \in {TagRecord(Head(tags), snapshot_dt, matchdate, tournament_day,
                                    CourtOf(Head(tags), current_court),
                                    NumOf(Head(tags), court_match_num))}})

\* _parse_snapshot(html_path), given the stem of the file and what the page shows
_parse_snapshot(stem, matchdate, tournament_day, tags) ==
    Only({
        IF ~snapshot_dt.ok THEN [ok |-> FALSE, records |-> <<>>]
        ELSE ParseTags(tags, snapshot_dt.value, matchdate, tournament_day, NONE, 0, <<>>)
        : snapshot_dt \in {strptime_stamp(RemoveAll(stem, "schedule_"))}})

(***************************************************************************)
(* atp/base_job.py: list_files                                             *)
(***************************************************************************)
\* fnmatch of a file name against a pattern with one "*"
Glob(name, pattern) ==
    LET parts == Split(pattern, "*")
        prefix == parts[1]
        suffix == parts[2]
    IN  /\ Len(name) >= Len(prefix) + Len(suffix)
        /\ SubSeq(name, 1, Len(prefix)) = prefix
        /\ SubSeq(name, Len(name) - Len(suffix) + 1, Len(name)) = suffix

\* sorted(paths) of paths in one directory: ascending by name
RECURSIVE SortedNames(_)
SortedNames(S) ==
    IF S = {} THEN <<>>
    ELSE LET first == CHOOSE n \in S : \A m \in S \ {n} : StrLess(n, m)
         IN  <<first>> \o SortedNames(S \ {first})

\* list_files(directory, pattern): the names of the matching files, sorted
list_files(files, directory, pattern) ==
    SortedNames({f.name : f \in {g \in files : g.dir = directory /\ Glob(g.name, pattern)}})

\* pl.read_parquet(directory / name)
read_parquet(files, directory, name) ==
    (CHOOSE f \in files : f.dir = directory /\ f.name = name).rows

(***************************************************************************)
(* atp/tournament/schedule.py: ScheduleTransformer                         *)
(***************************************************************************)
_SINGLES_DURATION == timedelta(2, 0)
_DOUBLES_DURATION == timedelta(1, 30)

Rows(rs) == [ok |-> TRUE, rows |-> rs]
RowsError == [ok |-> FALSE, rows |-> <<>>]

\* _parse_round: Round[round_text], or ValueError
_parse_round(round_text) ==
    IF round_text \in Round THEN [ok |-> TRUE, value |-> round_text]
    ELSE [ok |-> FALSE, value |-> ""]

\* the uid _dedup_matches computes for a staged row
RowUid(row) ==
    LET round_enum == _parse_round(row.round_text)
    IN  IF ~round_enum.ok THEN Raised("", <<>>, "")
        ELSE create_match_uid(row.year, row.tournament_id, round_enum.value,
                              row.p1_id, row.p2_id, row.is_doubles)

\* position of a key in the insertion order of a dict, 0 when absent
KeyIndex(keys, k) ==
    IF \E i \in 1..Len(keys) : keys[i] = k
    THEN CHOOSE i \in 1..Len(keys) : keys[i] = k
    ELSE 0

\* a faulty variant of DedupLoop: the first row seen of a uid is kept
RECURSIVE DedupLoop_FirstSeen(_, _, _)
DedupLoop_FirstSeen(rows, keys, values) ==
    IF rows = <<>> THEN Rows(values)
    ELSE LET row == Head(rows)
             uid == RowUid(row)
             at == KeyIndex(keys, uid.value)
         IN  IF ~uid.ok THEN RowsError
             ELSE IF at = 0
             THEN DedupLoop_FirstSeen(Tail(rows), Append(keys, uid.value), Append(values, row))
             ELSE DedupLoop_FirstSeen(Tail(rows), keys, values)

\* the loop of _dedup_matches; rows_by_uid is the pair (keys, values) in
\* insertion order, and assigning to a present key keeps its position
RECURSIVE DedupLoop(_, _, _)
DedupLoop(rows, keys, values) ==
    IF rows = <<>> THEN Rows(values)
    ELSE LET row == Head(rows)
             uid == RowUid(row)
             at == KeyIndex(keys, uid.value)
         IN  IF ~uid.ok THEN RowsError
             ELSE IF at = 0
             THEN DedupLoop(Tail(rows), Append(keys, uid.value), Append(values, row))
             ELSE IF DtGreater(row.snapshot_datetime, values[at].snapshot_datetime)
             THEN DedupLoop(Tail(rows), keys, [values EXCEPT ![at] = row])
             ELSE DedupLoop(Tail(rows), keys, values)

\* _dedup_matches(df)
_dedup_matches(rows) == DedupLoop(rows, <<>>, <<>>)

\* a faulty variant of _transform_row: any suffix with a time string is an exact time
_transform_row_AnySuffix(row) ==
    LET round_enum == _parse_round(row.round_text)
        match_date == fromisoformat(row.match_date_str)
        timed == row.start_time_str # ""
        parsed == IF timed THEN strptime_iso(row.start_time_str) ELSE ParseError
    IN  IF ~round_enum.ok \/ ~match_date.ok \/ (timed /\ ~parsed.ok)
        THEN [ok |-> FALSE, row |-> row]
        ELSE [ok |-> TRUE, row |->
                [tournament_id |-> row.tournament_id, year |-> row.year,
                 match_date |-> match_date.value,
                 start_time_utc |-> IF timed THEN <<parsed.value>> ELSE <<>>,
                 time_estimated |-> ~timed,
                 tournament_day |-> row.tournament_day,
                 court_name |-> row.court_name,
                 court_match_num |-> row.court_match_num,
                 round |-> round_enum.value, is_doubles |-> row.is_doubles,
                 p1_id |-> row.p1_id, p1_partner_id |-> row.p1_partner_id,
                 p1_partner_name |-> row.p1_partner_name,
                 p2_id |-> row.p2_id, p2_partner_id |-> row.p2_partner_id,
                 p2_partner_name |-> row.p2_partner_name]]

\* _transform_row(row): the ScheduleRecord kwargs, or the ValueError of
\* _parse_round, date.fromisoformat or datetime.strptime
_transform_row(row) ==
    LET round_enum == _parse_round(row.round_text)
        match_date == fromisoformat(row.match_date_str)
        timed == row.time_suffix \in {"Starts At", "Not Before"} /\ row.start_time_str # ""
        parsed == IF timed THEN strptime_iso(row.start_time_str) ELSE ParseError
    IN  IF ~round_enum.ok \/ ~match_date.ok \/ (timed /\ ~parsed.ok)
        THEN [ok |-> FALSE, row |-> row]
        ELSE [ok |-> TRUE, row |->
                [tournament_id |-> row.tournament_id, year |-> row.year,
                 match_date |-> match_date.value,
                 start_time_utc |-> IF timed THEN <<parsed.value>> ELSE <<>>,
                 time_estimated |-> ~(row.time_suffix = "Starts At" /\ row.start_time_str # ""),
                 tournament_day |-> row.tournament_day,
                 court_name |-> row.court_name,
                 court_match_num |-> row.court_match_num,
                 round |-> round_enum.value, is_doubles |-> row.is_doubles,
                 p1_id |-> row.p1_id, p1_partner_id |-> row.p1_partner_id,
                 p1_partner_name |-> row.p1_partner_name,
                 p2_id |-> row.p2_id, p2_partner_id |-> row.p2_partner_id,
                 p2_partner_name |-> row.p2_partner_name]]

\* [self._transform_row(row) for row in deduped]
TransformAll(rows) ==
    IF \A i \in 1..Len(rows) : _transform_row(rows[i]).ok
    THEN Rows([i \in 1..Len(rows) |-> _transform_row(rows[i]).row])
    ELSE RowsError

\* the sort key of _estimate_times: (tournament_day, court_name or "", court_match_num)
SortKey(r) ==
    <<r.tournament_day, IF r.court_name = NONE THEN "" ELSE r.court_name, r.court_match_num>>

\* tuple < tuple for the sort keys
KeyLess(a, b) ==
    \/ a[1] < b[1]
    \/ a[1] = b[1] /\ StrLess(a[2], b[2])
    \/ a[1] = b[1] /\ a[2] = b[2] /\ a[3] < b[3]

\* sorted(rows, key=...), as the indices of the rows: stable, ascending
RECURSIVE InsertByKey(_, _, _)
InsertByKey(order, rows, i) ==
    IF order = <<>> THEN <<i>>
    ELSE IF KeyLess(SortKey(rows[i]), SortKey(rows[Head(order)])) THEN <<i>> \o order
    ELSE <<Head(order)>> \o InsertByKey(Tail(order), rows, i)

RECURSIVE SortedOrder(_, _)
SortedOrder(rows, n) ==
    IF n = 0 THEN <<>> ELSE InsertByKey(SortedOrder(rows, n - 1), rows, n)

\* a faulty variant of by_court: the key leaves the court name out
by_court_AnyCourt(rows, day, court, num) ==
    LET hits == {i \in 1..Len(rows) :
                    /\ rows[i].tournament_day = day
                    /\ rows[i].court_match_num = num}
    IN  IF hits = {} THEN 0 ELSE CHOOSE i \in hits : \A j \in hits : j <= i

\* by_court.get((day, court, num)): the index of the row stored under the
\* key, 0 for None.  The first loop of _estimate_times stores the rows in
\* order, so the last row of a key is the one the dict holds.
by_court(rows, day, court, num) ==
    LET hits == {i \in 1..Len(rows) :
                    /\ rows[i].tournament_day = day
                    /\ rows[i].court_name = court
                    /\ rows[i].court_match_num = num}
    IN  IF hits = {} THEN 0 ELSE CHOOSE i \in hits : \A j \in hits : j <= i

\* the second loop of _estimate_times over the sorted rows; the rows are
\* updated in place, so a row estimated earlier in the loop serves the next
RECURSIVE EstimateLoop(_, _)
EstimateLoop(order, rows) ==
    IF order = <<>> THEN rows
    ELSE LET i == Head(order)
             row == rows[i]
             prev == by_court(rows, row.tournament_day, row.court_name,
                              row.court_match_num - 1)
             duration == IF rows[prev].is_doubles
                         THEN _DOUBLES_DURATION ELSE _SINGLES_DURATION
         IN  IF row.start_time_utc # <<>> THEN EstimateLoop(Tail(order), rows)
             ELSE IF prev # 0 /\ rows[prev].start_time_utc # <<>>
             THEN EstimateLoop(Tail(order),
                    [rows EXCEPT ![i].start_time_utc =
                        <<DtAdd(rows[prev].start_time_utc[1], duration)>>])
             ELSE EstimateLoop(Tail(order), rows)

\* _estimate_times(rows)
_estimate_times(rows) == EstimateLoop(SortedOrder(rows, Len(rows)), rows)

\* record.model_dump() of the ScheduleRecord r made from row, uid being what
\* its match_uid gives: the validated fields and match_uid, or the error of
\* create_match_uid
Dumped(row, r, uid) ==
    IF ~uid.ok THEN [ok |-> FALSE, row |-> row]
    ELSE [ok |-> TRUE, row |->
            [tournament_id |-> r.tournament_id, year |-> r.year,
             match_date |-> row.match_date,
             start_time_utc |-> r.start_time_utc,
             time_estimated |-> r.time_estimated,
             tournament_day |-> row.tournament_day,
             court_name |-> row.court_name,
             court_match_num |-> row.court_match_num,
             round |-> r.round, is_doubles |-> r.is_doubles,
             p1_id |-> r.a_id, p1_partner_id |-> r.a_partner_id,
             p1_partner_name |-> r.a_partner_name,
             p2_id |-> r.b_id, p2_partner_id |-> r.b_partner_id,
             p2_partner_name |-> r.b_partner_name,
             match_uid |-> uid.value]]

\* ScheduleRecord(**row)
RowRecord(row) ==
    Construct(
        [cls |-> "ScheduleRecord", tournament_id |-> row.tournament_id,
         year |-> row.year, round |-> row.round, is_doubles |-> row.is_doubles,
         a_id |-> row.p1_id, b_id |-> row.p2_id,
         a_partner_id |-> row.p1_partner_id, a_partner_name |-> row.p1_partner_name,
         b_partner_id |-> row.p2_partner_id, b_partner_name |-> row.p2_partner_name,
         time_estimated |-> row.time_estimated, start_time_utc |-> row.start_time_utc])

\* ScheduleRecord(**row).model_dump(), or the error of the construction
ScheduleRecord_model_dump(row) ==
    Only({
        IF ~made.ok THEN [ok |-> FALSE, row |-> row]
        ELSE Only({Dumped(row, made.record, uid) : uid \in {match_uid(made.record)}})
        : made \in {RowRecord(row)}})

\* [ScheduleRecord(**row) for row in transformed], then model_dump of each
DumpAll(rows) ==
    Only({
        IF \A i \in 1..Len(rows) : dumped[i].ok
        THEN Rows([i \in 1..Len(rows) |-> dumped[i].row])
        ELSE RowsError
        : dumped \in {[i \in 1..Len(rows) |-> ScheduleRecord_model_dump(rows[i])]}})

\* pl.concat of the frames read from the files, in the order of the list
RECURSIVE Concat(_, _, _)
Concat(files, directory, names) ==
    IF names = <<>> THEN <<>>
    ELSE read_parquet(files, directory, Head(names)) \o Concat(files, directory, Tail(names))

StageDir == _build_path("stage", TournamentPath \o "/schedule")
TargetDir == _build_path("stage", TournamentPath)
TargetName == "schedule.parquet"

\* the frame run() hands to _dedup_matches: the staged files in the order
\* of list_files, concatenated, without the rows of a null p1_id or p2_id
StagedInput(files) ==
    LET parquet_files == list_files(files, StageDir, "schedule_*.parquet")
    IN  SelectSeq(Concat(files, StageDir, parquet_files),
                  LAMBDA row : row.p1_id # NONE /\ row.p2_id # NONE)

\* ScheduleTransformer.run() on a stage tier gives how it ends, the rows
\* after _dedup_matches and after _transform_row, and the frame it saves.
\* The early returns: no staged file, or no row
Noop == [status |-> "noop", deduped |-> <<>>, transformed |-> <<>>, out_df |-> <<>>]

\* how run() ends once the records are validated: saved, or the error raised
Ended(deduped, transformed, out_df) ==
    IF ~out_df.ok
    THEN [status |-> "raised", deduped |-> deduped.rows,
          transformed |-> transformed.rows, out_df |-> <<>>]
    ELSE [status |-> "saved", deduped |-> deduped.rows,
          transformed |-> transformed.rows, out_df |-> out_df.rows]

\* _estimate_times, then ScheduleRecord(**row) and model_dump of every row
Validate(deduped, transformed) ==
    Only({Ended(deduped, transformed, out_df)
          : out_df \in {IF transformed.ok
                        THEN DumpAll(_estimate_times(transformed.rows))
                        ELSE RowsError}})

\* _transform_row of every deduplicated row
Transform(deduped) ==
    Only({Validate(deduped, transformed)
          : transformed \in {IF deduped.ok THEN TransformAll(deduped.rows)
                             ELSE RowsError}})

\* run(): read and concatenate the staged files, then the pipeline
RunResult(files) ==
    Only({IF df = <<>> THEN Noop ELSE Only({Transform(deduped) : deduped \in {_dedup_matches(df)}})
          : df \in {StagedInput(files)}})

(***************************************************************************)
(* The stage tier and the two jobs as operations on it                     *)
(***************************************************************************)
\* a faulty variant of save_parquet: the frame is appended to the file
save_parquet_Append(files, directory, name, rows) ==
    LET old == {f \in files : f.dir = directory /\ f.name = name}
        before == IF old = {} THEN <<>> ELSE (CHOOSE f \in old : TRUE).rows
    IN  (files \ old) \cup {[dir |-> directory, name |-> name, rows |-> before \o rows]}

\* save_parquet(df, path) when neither the write nor the rename raises:
\* the file at path holds the frame, whatever it held before
save_parquet(files, directory, name, rows) ==
    LET old == {f \in files : f.dir = directory /\ f.name \in {name, tmp_path(name)}}
    IN  (files \ old) \cup {[dir |-> directory, name |-> name, rows |-> rows]}

\* schedule.parquet as a one-element sequence, <<>> when the file is absent
OutputTable(files) ==
    LET at == {f \in files : f.dir = TargetDir /\ f.name = TargetName}
    IN  IF at = {} THEN <<>> ELSE <<(CHOOSE f \in at : TRUE).rows>>

StagedFiles(files) == {f \in files : f.dir = StageDir}

RECURSIVE RowCount(_)
RowCount(files) ==
    IF files = {} THEN 0
    ELSE LET f == CHOOSE g \in files : TRUE IN Len(f.rows) + RowCount(files \ {f})

MaxRows == 3
MaxRuns == 2

\* the raw snapshots of the tournament, by the stem of their file names
SnapshotStems == <<"schedule_20260204_080000", "schedule_20260204_160000">>

Days == {1, 2}
MatchDate(day) == IF day = 1 THEN "2026-02-04" ELSE "2026-02-05"

NoTrace == [deduped |-> <<>>, transformed |-> <<>>]

SchedInit ==
    /\ tree = {}
    /\ schedRuns = 0
    /\ schedLast = "none"
    /\ schedOut0 = <<>>
    /\ schedTrace = NoTrace

Tag(strong, round_text, is_doubles, p1, p2, suffix, datetime) ==
    [strong |-> strong, round_text |-> round_text, is_doubles |-> is_doubles,
     p1_id |-> p1[1], p1_partner_id |-> p1[2], p1_partner_name |-> p1[3],
     p2_id |-> p2[1], p2_partner_id |-> p2[2], p2_partner_name |-> p2[3],
     suffix |-> suffix, datetime |-> datetime, content |-> TRUE, match_type |-> ""]

TBD == <<NONE, NONE, NONE>>
Single(id) == <<id, NONE, NONE>>
Team(id, partner_id) == <<id, partner_id, "Partner " \o partner_id>>

\* ScheduleStager.run when one more snapshot has been fetched: the page is
\* parsed and its records are saved under the stem of the snapshot.  (The
\* snapshots staged before are parsed again to the same files.)
\* how many tags the next page may carry: what StageSnapshot leaves room for
Room ==
    IF schedRuns = 0 /\ Cardinality(StagedFiles(tree)) < Len(SnapshotStems)
    THEN MaxRows - RowCount(StagedFiles(tree))
    ELSE 0

StageSnapshot(day, tags) ==
    /\ schedRuns = 0
    /\ Cardinality(StagedFiles(tree)) < Len(SnapshotStems)
    /\ RowCount(StagedFiles(tree)) + Len(tags) <= MaxRows
    /\ \E stem \in {SnapshotStems[Cardinality(StagedFiles(tree)) + 1]} :
        \E parsed \in {_parse_snapshot(stem, MatchDate(day), day, tags)} :
           tree' = IF parsed.ok /\ parsed.records # <<>>
                   THEN save_parquet(tree, StageDir, stem \o ".parquet", parsed.records)
                   ELSE tree
    /\ UNCHANGED <<schedRuns, schedLast, schedOut0, schedTrace, uidVars, recVars, saveVars,
                   schemaVars, jobVars, callVars>>

\* What is kept of a run of a job: its class, whether it returned or raised,
\* the data directory as it found it, the units it listed as its input and
\* the stems it listed as done, the fetches it made with their outcomes, the
\* units it parsed and the names of the files it wrote, in the order of the
\* run.
JobLog(name, status, before, units, existing, fetched, parsed, written) ==
    [name |-> name, status |-> status, before |-> before, units |-> units,
     existing |-> existing, fetched |-> fetched, parsed |-> parsed, written |-> written]

NoJob == JobLog("", "none", {}, <<>>, {}, <<>>, <<>>, <<>>)

\* ScheduleTransformer.run()
RunTransformer ==
    /\ schedRuns < MaxRuns
    /\ \E r \in {RunResult(tree)} :
           /\ tree' = IF r.status = "saved"
                      THEN save_parquet(tree, TargetDir, TargetName, r.out_df)
                      ELSE tree
           /\ schedLast' = r.status
           /\ schedTrace' = [deduped |-> r.deduped, transformed |-> r.transformed]
           /\ job' = JobLog("ScheduleTransformer",
                            IF r.status = "raised" THEN "raised" ELSE "returned", tree,
                            list_files(tree, StageDir, "schedule_*.parquet"), {}, <<>>, <<>>,
                            IF r.status = "saved" THEN <<TargetName>> ELSE <<>>)
    /\ schedOut0' = OutputTable(tree)
    /\ schedRuns' = schedRuns + 1
    /\ UNCHANGED <<uidVars, recVars, saveVars, schemaVars, jobRuns, callVars>>

(***************************************************************************)
(* Pages: three families of snapshot pages                                 *)
(***************************************************************************)
\* Pages that list the same few matches again and again: a singles match,
\* the same match with the sides exchanged and an id in lower case, a
\* doubles match, and a match whose second side is still to be decided.
DedupMatches ==
    <<[round_text |-> "R16", is_doubles |-> FALSE, p1 |-> Single("ab12"), p2 |-> Single("CD34")],
      [round_text |-> "R16", is_doubles |-> FALSE, p1 |-> Single("CD34"), p2 |-> Single("AB12")],
      [round_text |-> "R16", is_doubles |-> TRUE, p1 |-> Team("EF56", "GH78"),
       p2 |-> Team("IJ90", "KL12")],
      [round_text |-> "QF", is_doubles |-> FALSE, p1 |-> Single("AB12"), p2 |-> TBD]>>

\* the first tag of a page carries the court heading and a start time, the
\* others follow
DedupTag(pos, who) ==
    LET m == DedupMatches[who]
    IN  Tag(IF pos = 1 THEN "Centre" ELSE "", m.round_text, m.is_doubles, m.p1, m.p2,
            IF pos = 1 THEN "Starts At" ELSE "Followed By",
            IF pos = 1 THEN "2026-02-04 11:00:00" ELSE "")

StageDedupPage ==
    \E n \in 1..Room :
        \E f \in [1..n -> 1..Len(DedupMatches)] :
            StageSnapshot(1, [i \in 1..n |-> DedupTag(i, f[i])])

\* Pages of matches that are all different, spread over courts: the k-th
\* match staged is a singles match for odd k and a doubles match for even
\* k; a tag either starts at a full hour that grows with k or follows the
\* match before it.  A page prints the heading of a court once, and the
\* first snapshot shows the first day.
Headings == {"Centre", "Court 1", ""}

CourtMatch(k) ==
    LET id(c) == "M" \o NatToStr(k) \o c
    IN  IF k % 2 = 1
        THEN [round_text |-> "R32", is_doubles |-> FALSE,
              p1 |-> Single(id("A")), p2 |-> Single(id("B"))]
        ELSE [round_text |-> "R32", is_doubles |-> TRUE,
              p1 |-> Team(id("A"), id("C")), p2 |-> Team(id("B"), id("D"))]

CourtTag(day, k, strong, timed) ==
    LET m == CourtMatch(k)
    IN  Tag(strong, m.round_text, m.is_doubles, m.p1, m.p2,
            IF timed THEN "Starts At" ELSE "Followed By",
            IF timed THEN MatchDate(day) \o " 1" \o NatToStr(k) \o ":00:00" ELSE "")

StageCourtPage ==
    \E day \in IF StagedFiles(tree) = {} THEN {1} ELSE Days, n \in 1..Room :
        \E f \in [1..n -> Headings \X BOOLEAN] :
            /\ \A i, j \in 1..n : (i < j /\ f[i][1] # "") => f[i][1] # f[j][1]
            /\ StageSnapshot(day, [i \in 1..n |->
                    CourtTag(day, RowCount(StagedFiles(tree)) + i, f[i][1], f[i][2])])

\* Pages of one snapshot whose tags carry the kinds of data-suffix and
\* data-datetime
Timings ==
    {<<"Starts At", "2026-02-04 11:00:00">>, <<"Starts At", "">>, <<"Starts At", "TBA">>,
     <<"Not Before", "2026-02-04 12:30:00">>, <<"Not Before", "">>,
     <<"Followed By", "">>, <<"Followed By", "2026-02-04 11:00:00">>,
     <<"After Suitable Rest", "2026-02-04 11:00:00">>}

TimingTag(pos, k, suffix, datetime) ==
    LET m == CourtMatch(k)
    IN  Tag(IF pos = 1 THEN "Centre" ELSE "", m.round_text, m.is_doubles, m.p1, m.p2,
            suffix, datetime)

StageTimingPage ==
    /\ tree = {}
    /\ \E n \in 1..Room :
        \E f \in [1..n -> Timings] :
            StageSnapshot(1, [i \in 1..n |-> TimingTag(i, i, f[i][1], f[i][2])])

SchedNext == StageDedupPage \/ StageCourtPage \/ StageTimingPage \/ RunTransformer

(***************************************************************************)
(* Claims about the consolidation of the schedule                          *)
(***************************************************************************)
\* the staged rows with the place they are read at: (file name, row number)
StagedAt ==
    UNION {{[name |-> f.name, idx |-> i, row |-> f.rows[i]] : i \in 1..Len(f.rows)} :
              f \in StagedFiles(tree)}

\* those of them with both sides known
ConfirmedAt == {x \in StagedAt : x.row.p1_id # NONE /\ x.row.p2_id # NONE}

UidOf(x) == RowUid(x.row).value

ReadBefore(x, y) == StrLess(x.name, y.name) \/ (x.name = y.name /\ x.idx < y.idx)

\* no confirmed staged row of the same uid is of a later snapshot
Latest(x) ==
    \A y \in ConfirmedAt :
        UidOf(y) = UidOf(x) => ~DtGreater(y.row.snapshot_datetime, x.row.snapshot_datetime)

\* the first read among the latest
FirstLatest(x) ==
    /\ Latest(x)
    /\ \A y \in ConfirmedAt : (UidOf(y) = UidOf(x) /\ Latest(y) /\ y # x) => ReadBefore(x, y)

\* the output row o carries the field values of the staged row w
Carries(o, w) ==
    /\ o.tournament_id = w.tournament_id /\ o.year = w.year
    /\ o.tournament_day = w.tournament_day
    /\ o.court_name = w.court_name /\ o.court_match_num = w.court_match_num
    /\ o.round = w.round_text /\ o.is_doubles = w.is_doubles
    /\ o.p1_id = w.p1_id /\ o.p2_id = w.p2_id
    /\ o.p1_partner_id = w.p1_partner_id /\ o.p2_partner_id = w.p2_partner_id
    /\ o.p1_partner_name = w.p1_partner_name /\ o.p2_partner_name = w.p2_partner_name
    /\ o.match_date = fromisoformat(w.match_date_str).value
    /\ w.start_time_str # "" => o.start_time_utc = <<strptime_iso(w.start_time_str).value>>

Perms(n) == {p \in [1..n -> 1..n] : \A i, j \in 1..n : p[i] = p[j] => i = j}

Range(seq) == {seq[i] : i \in 1..Len(seq)}

\* _dedup_matches keeps the same rows in whatever order the frame is read
ReadOrderIrrelevant ==
    LET df == StagedInput(tree)
    IN  \A p \in Perms(Len(df)) :
            Range(_dedup_matches([i \in 1..Len(df) |-> df[p[i]]]).rows)
                = Range(schedTrace.deduped)

\* one output row per uid of the confirmed staged rows, and no other row
OneRowPerUid ==
    LET out == OutputTable(tree)[1]
    IN  /\ \A x \in ConfirmedAt :
              Cardinality({i \in 1..Len(out) : out[i].match_uid = UidOf(x)}) = 1
        /\ \A i \in 1..Len(out) : \E x \in ConfirmedAt : out[i].match_uid = UidOf(x)

\* two confirmed staged rows of one uid carry the same snapshot_datetime
TiedRows ==
    \E x, y \in ConfirmedAt :
        /\ x # y /\ UidOf(x) = UidOf(y)
        /\ x.row.snapshot_datetime = y.row.snapshot_datetime

\* C6 (as claimed): after a consolidation the output has exactly one row per
\* match uid of the staged rows with both player ids, the row carries the
\* field values of the staged row with the greatest snapshot_datetime of
\* that uid, whatever the order in which files and rows are read, and no
\* output row comes from a staged row without a p1_id or p2_id.
C6_LatestSnapshotAnyOrder ==
    schedLast = "saved" =>
        LET out == OutputTable(tree)[1]
        IN  /\ OneRowPerUid
            /\ \A i \in 1..Len(out) :
                  \E w \in ConfirmedAt :
                      UidOf(w) = out[i].match_uid /\ Latest(w) /\ Carries(out[i], w.row)
            /\ ReadOrderIrrelevant

\* C6 (amended): one row per uid of the confirmed staged rows; the row
\* carries the values of the staged row with the greatest snapshot_datetime
\* of the uid and, where several share it, of the one read first (files
\* ascending by name, rows in file order); the order of reading does not
\* matter when no two rows of a uid share a snapshot_datetime.
C6_LatestSnapshotFirstRead ==
    schedLast = "saved" =>
        LET out == OutputTable(tree)[1]
        IN  /\ OneRowPerUid
            /\ \A i \in 1..Len(out) :
                  \E w \in ConfirmedAt :
                      UidOf(w) = out[i].match_uid /\ FirstLatest(w) /\ Carries(out[i], w.row)
            /\ ~TiedRows => ReadOrderIrrelevant

\* a match staged in two snapshots at different places of the page, next to
\* a match with a side to be decided, has been consolidated
C6_Witness ==
    /\ schedLast = "saved"
    /\ \E x, y \in ConfirmedAt :
          /\ UidOf(x) = UidOf(y)
          /\ DtGreater(y.row.snapshot_datetime, x.row.snapshot_datetime)
          /\ x.row.court_match_num # y.row.court_match_num
          /\ \E i \in 1..Len(OutputTable(tree)[1]) :
                Carries(OutputTable(tree)[1][i], y.row)
    /\ StagedAt # ConfirmedAt

\* C7: running the transformer again on the same staged files gives the
\* same table, no uid twice, and schedule.parquet is never among the files
\* the run reads.
C7_RunIdempotent ==
    /\ schedRuns >= 2 => OutputTable(tree) = schedOut0
    /\ schedLast = "saved" =>
          \A i, j \in 1..Len(OutputTable(tree)[1]) :
              OutputTable(tree)[1][i].match_uid = OutputTable(tree)[1][j].match_uid => i = j
    /\ TargetName \notin Range(list_files(tree, StageDir, "schedule_*.parquet"))
    /\ TargetName \notin Range(list_files(tree, TargetDir, "schedule_*.parquet"))
    /\ StagedInput(tree) = StagedInput(StagedFiles(tree))

\* the transformer has run twice over two snapshots that share a match
C7_Witness ==
    /\ schedRuns = 2 /\ schedLast = "saved"
    /\ schedOut0 # <<>>
    /\ Cardinality(StagedFiles(tree)) = 2
    /\ Len(OutputTable(tree)[1]) < Cardinality(ConfirmedAt)

(***************************************************************************)
(* Claims about _estimate_times and _transform_row                         *)
(*                                                                         *)
(* schedTrace.transformed holds the rows as _transform_row made them; the  *)
(* saved table holds them, in the same order, as _estimate_times left      *)
(* them.                                                                   *)
(***************************************************************************)
\* the duration assumed for the match of a row
D(r) == IF r.is_doubles THEN timedelta(1, 30) ELSE timedelta(2, 0)

SameDayAndCourt(a, b) ==
    a.tournament_day = b.tournament_day /\ a.court_name = b.court_name

\* c lists k >= 2 rows of one day and court with consecutive numbers, of
\* which only the first came out of _transform_row with a time
IsChain(rows, c) ==
    /\ rows[c[1]].start_time_utc # <<>>
    /\ \A m \in 2..Len(c) :
          /\ SameDayAndCourt(rows[c[m]], rows[c[m - 1]])
          /\ rows[c[m]].court_match_num = rows[c[m - 1]].court_match_num + 1
          /\ rows[c[m]].start_time_utc = <<>>

Chains(rows) ==
    {c \in UNION {[1..k -> 1..Len(rows)] : k \in 2..Len(rows)} : IsChain(rows, c)}

\* C8 (as claimed): of consecutive rows on one day and court of which only
\* the first has a resolved time, every later row gets the start of the row
\* before it plus 2h after a singles match and 1h30m after a doubles match.
C8_ChainedEstimates ==
    schedLast = "saved" =>
        LET out == OutputTable(tree)[1]
        IN  \A c \in Chains(schedTrace.transformed) :
                \A m \in 2..Len(c) :
                    /\ out[c[m - 1]].start_time_utc # <<>>
                    /\ out[c[m]].start_time_utc =
                          <<DtAdd(out[c[m - 1]].start_time_utc[1], D(out[c[m - 1]]))>>

\* C23 (as claimed): among the rows _dedup_matches hands to _estimate_times
\* no two share (tournament_day, court_name, court_match_num), so the
\* lookup of the previous row finds at most one match.
C23_SlotsUnique ==
    schedLast = "saved" =>
        \A i, j \in 1..Len(schedTrace.deduped) :
            (/\ schedTrace.deduped[i].tournament_day = schedTrace.deduped[j].tournament_day
             /\ schedTrace.deduped[i].court_name = schedTrace.deduped[j].court_name
             /\ schedTrace.deduped[i].court_match_num
                    = schedTrace.deduped[j].court_match_num)
            => i = j

\* C9: a row without a resolved time gets a time only from a row of the same
\* day and court with the number before its own, which has a time; a row
\* with a resolved time keeps it.
C9_EstimateOnlyFromPredecessor ==
    schedLast = "saved" =>
        LET out == OutputTable(tree)[1]
            was == schedTrace.transformed
        IN  \A i \in 1..Len(out) :
                /\ was[i].start_time_utc # <<>> =>
                      /\ out[i].start_time_utc = was[i].start_time_utc
                      /\ out[i].time_estimated = was[i].time_estimated
                /\ (was[i].start_time_utc = <<>> /\ out[i].start_time_utc # <<>>) =>
                      \E j \in 1..Len(out) :
                          /\ SameDayAndCourt(out[j], out[i])
                          /\ out[j].court_match_num = out[i].court_match_num - 1
                          /\ out[j].start_time_utc # <<>>
                          /\ out[i].start_time_utc =
                                <<DtAdd(out[j].start_time_utc[1], D(out[j]))>>

\* a row stays without a time although the row numbered before it on another
\* court, read after the row of its own court, has one
C9_Witness ==
    /\ schedLast = "saved"
    /\ \E i, j \in 1..Len(OutputTable(tree)[1]) :
          LET out == OutputTable(tree)[1]
          IN  /\ out[i].start_time_utc = <<>>
              /\ out[j].start_time_utc # <<>>
              /\ out[j].court_match_num = out[i].court_match_num - 1
              /\ out[j].tournament_day = out[i].tournament_day
              /\ out[j].court_name # out[i].court_name
              /\ i < j

\* the time _transform_row gives a staged row
Resolves(w, t) ==
    IF w.time_suffix = "Starts At" /\ w.start_time_str # ""
    THEN ~t.time_estimated /\ t.start_time_utc = <<strptime_iso(w.start_time_str).value>>
    ELSE IF w.time_suffix = "Not Before" /\ w.start_time_str # ""
    THEN t.time_estimated /\ t.start_time_utc = <<strptime_iso(w.start_time_str).value>>
    ELSE t.time_estimated /\ t.start_time_utc = <<>>

\* C10: "Starts At" with a time string gives time_estimated = false and the
\* parsed time, "Not Before" with a time string gives time_estimated = true
\* and the parsed time, everything else time_estimated = true and no time;
\* so no row handed to ScheduleRecord is exact without a time.
C10_TransformRowTimes ==
    /\ \A i \in 1..Len(schedTrace.transformed) :
          /\ Resolves(schedTrace.deduped[i], schedTrace.transformed[i])
          /\ ~(~schedTrace.transformed[i].time_estimated
               /\ schedTrace.transformed[i].start_time_utc = <<>>)
    /\ schedLast = "saved" =>
          \A i \in 1..Len(OutputTable(tree)[1]) :
              ~(~OutputTable(tree)[1][i].time_estimated
                /\ OutputTable(tree)[1][i].start_time_utc = <<>>)

\* one page with an exact time, a not-before time and a time under another
\* suffix has been transformed
C10_Witness ==
    /\ schedLast = "saved"
    /\ \E i, j, k \in 1..Len(schedTrace.transformed) :
          LET w == schedTrace.deduped
              t == schedTrace.transformed
          IN  /\ w[i].time_suffix = "Starts At"
              /\ ~t[i].time_estimated
              /\ t[i].start_time_utc = <<DateTime(2026, 2, 4, 11, 0, 0)>>
              /\ w[j].time_suffix = "Not Before"
              /\ t[j].time_estimated
              /\ t[j].start_time_utc = <<DateTime(2026, 2, 4, 12, 30, 0)>>
              /\ w[k].time_suffix = "After Suitable Rest" /\ w[k].start_time_str # ""
              /\ t[k].time_estimated /\ t[k].start_time_utc = <<>>

(***************************************************************************)
(* atp/player_id_corrections.py: correct_player_id called on its own       *)
(* result                                                                  *)
(***************************************************************************)
\* what correct_player_id writes to the log: "info" with a correction,
\* "warning" for an id with a colon and no entry, "" otherwise
correct_player_id_log(player_id, tournament_id, year) ==
    IF ~Contains(player_id, ":") THEN ""
    ELSE IF <<Upper(player_id), tournament_id, year>> \in DOMAIN _CORRECTIONS THEN "info"
    ELSE "warning"

\* the ids of the correction table, the codes it maps to, ids in other
\* cases, ids with a colon the table does not hold, and ordinary codes
CorrIds ==
    {k[1] : k \in DOMAIN _CORRECTIONS}
    \cup {Lower(k[1]) : k \in DOMAIN _CORRECTIONS}
    \cup {_CORRECTIONS[k] : k \in DOMAIN _CORRECTIONS}
    \cup {"Sr:Competitor:972327", "SR:COMPETITOR:1", "sr:player:972327", ":", "A:B",
          "AB12", "ab12", "", "J0DZ "}
CorrTournamentIds == {375, 580, 8096}
CorrYears == {2025, 2026}

NoCorrection ==
    [called |-> FALSE, player_id |-> "", tournament_id |-> 0, year |-> 0,
     once |-> "", log |-> "", twice |-> ""]

CorrInit == corr = NoCorrection

\* correct_player_id(x, t, y), then correct_player_id of what it returned
CorrectCall ==
    /\ \E x \in CorrIds, t \in CorrTournamentIds, y \in CorrYears :
        \E once \in {correct_player_id(x, t, y)} :
            corr' = [called |-> TRUE, player_id |-> x, tournament_id |-> t, year |-> y,
                     once |-> once, log |-> correct_player_id_log(x, t, y),
                     twice |-> correct_player_id(once, t, y)]
    /\ UNCHANGED <<resRec, dbl, uidVars, recVars, saveVars, schedVars, jobVars, callVars>>

CorrNext == CorrectCall

\* the code the table holds for the id in upper case, or NONE
TableCode(x, t, y) ==
    IF \E k \in DOMAIN _CORRECTIONS : k = <<Upper(x), t, y>>
    THEN _CORRECTIONS[<<Upper(x), t, y>>]
    ELSE NONE

\* C17: correct_player_id applied to its own result returns that result; an
\* id without a colon is returned unchanged; an id with a colon whose
\* upper-cased form is in the table for the tournament and year gives the
\* mapped code; an id with a colon and no entry is returned unchanged, with
\* a warning in the log.
C17_CorrectionIdempotent ==
    corr.called =>
        /\ corr.twice = corr.once
        /\ ~(\E i \in 1..Len(corr.player_id) : CharAt(corr.player_id, i) = ":")
              => corr.once = corr.player_id
        /\ (\E i \in 1..Len(corr.player_id) : CharAt(corr.player_id, i) = ":")
              => IF TableCode(corr.player_id, corr.tournament_id, corr.year) # NONE
                 THEN corr.once = TableCode(corr.player_id, corr.tournament_id, corr.year)
                 ELSE corr.once = corr.player_id /\ corr.log = "warning"

\* a lower-case id of the table was corrected, and correcting the code again
\* left it alone
C17_Witness ==
    /\ corr.called
    /\ corr.player_id = "sr:competitor:972327"
    /\ corr.once = "J0DZ"
    /\ corr.twice = "J0DZ"

(***************************************************************************)
(* atp/schemas.py: ResultsRecord                                           *)
(*                                                                         *)
(* The set scores are kept as sets[i] = [w, l, tb] for the fields w_set<i>, *)
(* l_set<i> and tb_set<i> of _SET_FIELDS; an int | None field is <<>>      *)
(* (None) or <<n>>.                                                        *)
(***************************************************************************)
\* _SET_FIELDS: the index of each (w_set, l_set, tb_set) triple
_SET_FIELDS == 1..5

\* a faulty variant of _validate_walkover: the tiebreak fields are not looked at
_validate_walkover_NoTiebreak(r) ==
    IF r.match_status # "walkover" THEN ""
    ELSE IF r.duration_seconds # <<>> THEN "Walkover must not have duration_seconds"
    ELSE IF r.score # "" THEN "Walkover must have empty score string"
    ELSE IF \E i \in _SET_FIELDS : r.sets[i].w # <<>> \/ r.sets[i].l # <<>>
    THEN "Walkover must not have set scores"
    ELSE ""

\* ResultsRecord._validate_walkover: the message of the ValueError, or ""
_validate_walkover(r) ==
    IF r.match_status # "walkover" THEN ""
    ELSE IF r.duration_seconds # <<>> THEN "Walkover must not have duration_seconds"
    ELSE IF r.score # "" THEN "Walkover must have empty score string"
    ELSE IF \E i \in _SET_FIELDS :
                r.sets[i].w # <<>> \/ r.sets[i].l # <<>> \/ r.sets[i].tb # <<>>
    THEN "Walkover must not have set scores"
    ELSE ""

\* ResultsRecord._validate_sets_consistent from set i on: the loop raises
\* on a set with one of w and l, and at the first set without w it looks
\* at the w of the later sets and then leaves the loop (break)
RECURSIVE SetsLoop(_, _)
SetsLoop(r, i) ==
    IF i \notin _SET_FIELDS THEN ""
    ELSE IF (r.sets[i].w = <<>>) # (r.sets[i].l = <<>>)
    THEN "Set " \o NatToStr(i) \o ": w and l must both be present or absent"
    ELSE IF r.sets[i].w = <<>>
    THEN IF \E j \in _SET_FIELDS : j > i /\ r.sets[j].w # <<>>
         THEN "Set gap: set " \o NatToStr(i) \o " is absent but later set is present"
         ELSE ""
    ELSE SetsLoop(r, i + 1)

\* ResultsRecord._validate_sets_consistent: the message of the ValueError, or ""
_validate_sets_consistent(r) == SetsLoop(r, 1)

\* the ids and the partner rule of ResultsRecord, as for the other classes
ResultsIds(kwargs) ==
    Construct([cls |-> "ResultsRecord", tournament_id |-> kwargs.tournament_id,
               year |-> kwargs.year, round |-> kwargs.round,
               is_doubles |-> kwargs.is_doubles,
               a_id |-> kwargs.winner_id, b_id |-> kwargs.loser_id,
               a_partner_id |-> kwargs.winner_partner_id,
               a_partner_name |-> kwargs.winner_partner_name,
               b_partner_id |-> kwargs.loser_partner_id,
               b_partner_name |-> kwargs.loser_partner_name,
               time_estimated |-> TRUE, start_time_utc |-> <<>>])

\* the record with the ids as the validators left them
WithIds(kwargs, ids) ==
    [kwargs EXCEPT !.winner_id = ids.a_id, !.loser_id = ids.b_id,
                   !.winner_partner_id = ids.a_partner_id,
                   !.loser_partner_id = ids.b_partner_id]

\* ResultsRecord(**kwargs): the field validators, _correct_player_ids,
\* _validate_doubles_partners, _validate_walkover, _validate_sets_consistent
ResultsRecord(kwargs) ==
    Only({IF ~made.ok THEN [ok |-> FALSE, error |-> made.error, record |-> kwargs]
          ELSE IF _validate_walkover(kwargs) # ""
          THEN [ok |-> FALSE, error |-> _validate_walkover(kwargs), record |-> kwargs]
          ELSE IF _validate_sets_consistent(kwargs) # ""
          THEN [ok |-> FALSE, error |-> _validate_sets_consistent(kwargs),
                record |-> kwargs]
          ELSE [ok |-> TRUE, error |-> "", record |-> WithIds(kwargs, made.record)]
          : made \in {ResultsIds(kwargs)}})

(***************************************************************************)
(* Inputs of the ResultsRecord specification: any choice of at most        *)
(* MaxSetFields of the 15 set fields is non-null                           *)
(***************************************************************************)
MaxSetFields == 3

SetFieldNames == _SET_FIELDS \X {"w", "l", "tb"}

SetChoices == {S \in SUBSET SetFieldNames : Cardinality(S) <= MaxSetFields}

\* the 15 set fields, those of S holding a score
SetsOf(S) ==
    [i \in _SET_FIELDS |->
        [w |-> IF <<i, "w">> \in S THEN <<6>> ELSE <<>>,
         l |-> IF <<i, "l">> \in S THEN <<4>> ELSE <<>>,
         tb |-> IF <<i, "tb">> \in S THEN <<5>> ELSE <<>>]]

ResStatuses == {"completed", "retired", "walkover"}
ResDurations == {<<>>, <<3600>>}
ResScores == {"", "6-4"}
\* is_doubles and the two partner ids
ResSides == {<<FALSE, NONE, NONE>>, <<TRUE, "EF56", "GH78">>, <<TRUE, NONE, "GH78">>}

NoResults == [called |-> FALSE, ok |-> FALSE, error |-> "", kwargs |-> <<>>, record |-> <<>>]

ResInit == resRec = NoResults

\* ResultsRecord(**kwargs)
ConstructResults ==
    /\ ~resRec.called
    /\ \E status \in ResStatuses, duration \in ResDurations, score \in ResScores,
          S \in SetChoices, side \in ResSides :
        \E kwargs \in {[tournament_id |-> 375, year |-> 2026, round |-> "QF",
                        is_doubles |-> side[1], match_status |-> status,
                        duration_seconds |-> duration, score |-> score,
                        sets |-> SetsOf(S),
                        winner_id |-> "ab12", loser_id |-> "CD34",
                        winner_partner_id |-> side[2],
                        winner_partner_name |-> IF side[2] = NONE THEN NONE ELSE "E. Partner",
                        loser_partner_id |-> side[3],
                        loser_partner_name |-> IF side[3] = NONE THEN NONE ELSE "G. Partner"]} :
            \E made \in {ResultsRecord(kwargs)} :
                resRec' = [called |-> TRUE, ok |-> made.ok, error |-> made.error,
                        kwargs |-> kwargs, record |-> made.record]
    /\ UNCHANGED <<corr, dbl, uidVars, recVars, saveVars, schedVars, jobVars, callVars>>

ResNext == ConstructResults

\* the partner rule as the claim words it, read off the arguments
PartnersFine(k) ==
    IF k.is_doubles
    THEN k.winner_partner_id # NONE /\ k.loser_partner_id # NONE
    ELSE /\ k.winner_partner_id = NONE /\ k.winner_partner_name = NONE
         /\ k.loser_partner_id = NONE /\ k.loser_partner_name = NONE

AnySetField(k) == \E i \in 1..5 : k.sets[i].w # <<>> \/ k.sets[i].l # <<>> \/ k.sets[i].tb # <<>>

\* C13: constructing a ResultsRecord with match_status "walkover" raises if
\* duration_seconds is non-null, or score is not the empty string, or any
\* of the 15 set fields is non-null; it succeeds when duration is null,
\* score is empty and all set fields are null, the partner rule being
\* satisfied.
C13_WalkoverRule ==
    (resRec.called /\ resRec.kwargs.match_status = "walkover") =>
        /\ (resRec.kwargs.duration_seconds # <<>> \/ resRec.kwargs.score # ""
              \/ AnySetField(resRec.kwargs)) => ~resRec.ok
        /\ (resRec.kwargs.duration_seconds = <<>> /\ resRec.kwargs.score = ""
              /\ ~AnySetField(resRec.kwargs) /\ PartnersFine(resRec.kwargs)) => resRec.ok

\* a walkover whose only fault is one tiebreak field was refused
C13_Witness ==
    /\ resRec.called /\ resRec.kwargs.match_status = "walkover"
    /\ resRec.kwargs.duration_seconds = <<>> /\ resRec.kwargs.score = ""
    /\ PartnersFine(resRec.kwargs)
    /\ resRec.kwargs.sets[3].tb # <<>>
    /\ \A i \in 1..5 : resRec.kwargs.sets[i].w = <<>> /\ resRec.kwargs.sets[i].l = <<>>
    /\ ~resRec.ok /\ resRec.error = "Walkover must not have set scores"

\* C14 (as claimed): for every set i, constructing a ResultsRecord in which
\* exactly one of w_set_i and l_set_i is non-null raises, whatever the other
\* sets hold; so in every constructed ResultsRecord w_set_i is null iff
\* l_set_i is null.
C14_SetPairsTogether ==
    (resRec.called /\ resRec.ok) =>
        \A i \in 1..5 : (resRec.record.sets[i].w = <<>>) <=> (resRec.record.sets[i].l = <<>>)

\* C15 (as claimed): in every constructed ResultsRecord the scored sets
\* form a prefix: if set i has no winner/loser score, no later set has a
\* non-null w_set or l_set.
C15_SetsFormPrefix ==
    (resRec.called /\ resRec.ok) =>
        \A i, j \in 1..5 :
            (i < j /\ resRec.record.sets[i].w = <<>> /\ resRec.record.sets[i].l = <<>>)
                => (resRec.record.sets[j].w = <<>> /\ resRec.record.sets[j].l = <<>>)

(***************************************************************************)
(* atp/schemas.py: the partner rule of StagedScheduleRecord,               *)
(* ScheduleRecord, ResultsRecord and MatchStatsRecord                      *)
(*                                                                         *)
(* a_id / b_id stand for the two player ids of the class and likewise for  *)
(* the partner fields, as in Construct.                                    *)
(***************************************************************************)
PartnerClasses == {"StagedScheduleRecord"} \cup RecordClasses

\* cls(**kwargs) for any of the four classes: [ok, error]
ConstructAny(cls, k) ==
    IF cls = "StagedScheduleRecord"
    THEN Only({[ok |-> made.ok, error |-> made.error]
               : made \in {StagedScheduleRecord(
                    [snapshot_datetime |-> DateTime(2026, 2, 4, 8, 0, 0),
                     tournament_id |-> k.tournament_id, year |-> k.year,
                     match_date_str |-> "2026-02-04", start_time_str |-> "",
                     time_suffix |-> "Followed By", tournament_day |-> 1,
                     court_name |-> "Centre", court_match_num |-> 1,
                     round_text |-> "Quarterfinals", is_doubles |-> k.is_doubles,
                     p1_id |-> k.a_id, p1_partner_id |-> k.a_partner_id,
                     p1_partner_name |-> k.a_partner_name,
                     p2_id |-> k.b_id, p2_partner_id |-> k.b_partner_id,
                     p2_partner_name |-> k.b_partner_name])}})
    ELSE Only({[ok |-> made.ok, error |-> made.error]
               : made \in {Construct(
                    [cls |-> cls, tournament_id |-> k.tournament_id, year |-> k.year,
                     round |-> "QF", is_doubles |-> k.is_doubles,
                     a_id |-> k.a_id, b_id |-> k.b_id,
                     a_partner_id |-> k.a_partner_id, a_partner_name |-> k.a_partner_name,
                     b_partner_id |-> k.b_partner_id, b_partner_name |-> k.b_partner_name,
                     time_estimated |-> TRUE, start_time_utc |-> <<>>])}})

DblIds == {"AB12", NONE}
DblPartnerIds == {"ef56", NONE}
DblPartnerNames == {"E. Partner", NONE}

NoPartners == [called |-> FALSE, cls |-> "", kwargs |-> <<>>, ok |-> FALSE, error |-> ""]

DblInit == dbl = NoPartners

\* cls(**kwargs) with every combination of given and missing partner fields
ConstructPartners ==
    /\ ~dbl.called
    /\ \E cls \in PartnerClasses, d \in BOOLEAN, a \in DblIds, b \in {"CD34", NONE},
          pa \in DblPartnerIds, na \in DblPartnerNames,
          pb \in DblPartnerIds, nb \in DblPartnerNames :
        \E k \in {[tournament_id |-> 375, year |-> 2026, is_doubles |-> d,
                   a_id |-> a, b_id |-> b,
                   a_partner_id |-> pa, a_partner_name |-> na,
                   b_partner_id |-> pb, b_partner_name |-> nb]} :
            \E made \in {ConstructAny(cls, k)} :
                dbl' = [called |-> TRUE, cls |-> cls, kwargs |-> k,
                        ok |-> made.ok, error |-> made.error]
    /\ UNCHANGED <<corr, resRec, uidVars, recVars, saveVars, schedVars, jobVars, callVars>>

DblNext == ConstructPartners

AnyPartnerField(k) ==
    \/ k.a_partner_id # NONE \/ k.a_partner_name # NONE
    \/ k.b_partner_id # NONE \/ k.b_partner_name # NONE

\* C16 (as claimed): for each of the four record classes, construction with
\* is_doubles = true and a null partner id on either side raises, and
\* construction with is_doubles = false and any non-null partner id or
\* partner name raises.
C16_PartnerRuleAllClasses ==
    dbl.called =>
        /\ (dbl.kwargs.is_doubles
              /\ (dbl.kwargs.a_partner_id = NONE \/ dbl.kwargs.b_partner_id = NONE))
             => ~dbl.ok
        /\ (~dbl.kwargs.is_doubles /\ AnyPartnerField(dbl.kwargs)) => ~dbl.ok

\* C16 (amended): ScheduleRecord, ResultsRecord and MatchStatsRecord raise
\* for is_doubles = true with a null partner id on either side;
\* StagedScheduleRecord raises for is_doubles = true when a side has a
\* player id and no partner id, and accepts a side with neither; all four
\* raise for is_doubles = false with any non-null partner id or name.
C16_PartnerRuleNamedSides ==
    dbl.called =>
        /\ (dbl.cls # "StagedScheduleRecord" /\ dbl.kwargs.is_doubles
              /\ (dbl.kwargs.a_partner_id = NONE \/ dbl.kwargs.b_partner_id = NONE))
             => ~dbl.ok
        /\ (dbl.cls = "StagedScheduleRecord" /\ dbl.kwargs.is_doubles)
             => (dbl.ok <=>
                   /\ dbl.kwargs.a_id # NONE => dbl.kwargs.a_partner_id # NONE
                   /\ dbl.kwargs.b_id # NONE => dbl.kwargs.b_partner_id # NONE)
        /\ (~dbl.kwargs.is_doubles /\ AnyPartnerField(dbl.kwargs)) => ~dbl.ok

\* a doubles StagedScheduleRecord with an undetermined first side, which has
\* neither id nor partner, was constructed
C16_Witness ==
    /\ dbl.called /\ dbl.cls = "StagedScheduleRecord" /\ dbl.kwargs.is_doubles
    /\ dbl.kwargs.a_id = NONE /\ dbl.kwargs.a_partner_id = NONE
    /\ dbl.kwargs.b_id # NONE /\ dbl.kwargs.b_partner_id # NONE
    /\ dbl.ok

(***************************************************************************)
(* atp/base_extractor.py: _fetch, fetch_json, fetch_html                   *)
(*                                                                         *)
(* The server's side of one fetch is the sequence of its answers to the    *)
(* attempts: a response with a status code and a body (<<>> for none, a    *)
(* one-element sequence otherwise), status code 0 standing for no response *)
(* at all (a timeout, a refused connection).                               *)
(***************************************************************************)
RETRIES == 3

Response(status_code, body) == [status_code |-> status_code, body |-> body]

\* what a fetch gives its caller: the body, or the exception it raises
Fetched(body) == [ok |-> TRUE, exc |-> "", status_code |-> 200, body |-> body]
RequestException(exc, status_code) ==
    [ok |-> FALSE, exc |-> exc, status_code |-> status_code, body |-> <<>>]

\* session.get(url) and response.raise_for_status() of one attempt
Attempt(response) ==
    IF response.status_code = 0 THEN RequestException("ConnectionError", 0)
    ELSE IF response.status_code >= 400
    THEN RequestException("HTTPError", response.status_code)
    ELSE Fetched(response.body)

\* for attempt in range(retries + 1): the first answer that is no error is
\* returned, the error of the last attempt is raised
RECURSIVE FetchLoop(_, _)
FetchLoop(responses, attempt) ==
    IF Attempt(responses[attempt + 1]).ok \/ attempt = RETRIES
    THEN Attempt(responses[attempt + 1])
    ELSE FetchLoop(responses, attempt + 1)

_fetch(responses) == FetchLoop(responses, 0)

\* fetch_json(url): response.json() of the response of _fetch
fetch_json(responses) == _fetch(responses)

\* fetch_html(url): the text of the page; the exhaustion of the retries
\* propagates to the caller
fetch_html(responses) == _fetch(responses)

\* every attempt is answered alike: with a page, or with an error status
Always(response) == [attempt \in 1..(RETRIES + 1) |-> response]
Page(body) == Always(Response(200, <<body>>))
Status(status_code) == Always(Response(status_code, <<>>))

\* the first attempts fail with a server error, the last one is answered
Recovered(body) ==
    [attempt \in 1..(RETRIES + 1) |->
        IF attempt <= RETRIES THEN Response(500, <<>>) ELSE Response(200, <<body>>)]

(***************************************************************************)
(* atp/base_job.py: save_json, read_json, save_html, read_html and the     *)
(* stem of a file name                                                     *)
(***************************************************************************)
\* Path(name).stem: the name without its last suffix
RECURSIVE LastDot(_, _)
LastDot(name, i) ==
    IF i <= 1 THEN 0 ELSE IF CharAt(name, i) = "." THEN i ELSE LastDot(name, i - 1)

Stem(name) ==
    IF LastDot(name, Len(name)) = 0 THEN name
    ELSE SubSeq(name, 1, LastDot(name, Len(name)) - 1)

\* a faulty variant of Stems: the names of the files, suffix included
Stems_Names(names) == {names[i] : i \in 1..Len(names)}

Stems(names) == {Stem(names[i]) : i \in 1..Len(names)}

\* path.exists()
Exists(files, directory, name) == \E f \in files : f.dir = directory /\ f.name = name

\* save_json(data, path) / save_html(html, path) when the write succeeds:
\* the file holds the one document
save_json(files, directory, name, data) == save_parquet(files, directory, name, <<data>>)
save_html(files, directory, name, html) == save_parquet(files, directory, name, <<html>>)

\* read_json(path) / read_html(path)
read_json(files, directory, name) == read_parquet(files, directory, name)[1]
read_html(files, directory, name) == read_parquet(files, directory, name)[1]

MaxJobRuns == 6

JobInit ==
    /\ job = NoJob
    /\ jobRuns = 0

\* the frame of every job run: the other parts of the model stay as they are
JobFrame ==
    /\ jobRuns < MaxJobRuns
    /\ jobRuns' = jobRuns + 1
    /\ UNCHANGED <<schedRuns, schedLast, schedOut0, schedTrace, uidVars, recVars, saveVars,
                   schemaVars, callVars>>

(***************************************************************************)
(* atp/tournament/match_stats.py: MatchStatsExtractor                      *)
(***************************************************************************)
ResultsName == "results.parquet"
StatsRawDir == _build_path("raw", TournamentPath \o "/match_stats")

\* _get_match_codes(tournament): the codes of results.parquet, without the
\* null ones, unique and sorted
_get_match_codes(files) ==
    IF ~Exists(files, TargetDir, ResultsName) THEN <<>>
    ELSE SortedNames({row.match_code : row \in
            {r \in Range(read_parquet(files, TargetDir, ResultsName)) : r.match_code # NONE}})

\* a faulty variant of Hawkeye500: every HTTP error is skipped
Hawkeye500_AnyStatus(e) == e.exc = "HTTPError"

\* except requests.HTTPError as e:
\*     if e.response is not None and e.response.status_code == 500:
Hawkeye500(e) == e.exc = "HTTPError" /\ e.status_code = 500

\* the loop of run over to_fetch: fetch, skip on a 500, save.  Gives how
\* the loop ends, the directory, the fetches made and the files written.
RECURSIVE FetchStats(_, _, _, _, _)
FetchStats(files, to_fetch, served, fetched, written) ==
    IF to_fetch = <<>>
    THEN [status |-> "returned", files |-> files, fetched |-> fetched, written |-> written]
    ELSE Only({
            IF data.ok
            THEN FetchStats(save_json(files, StatsRawDir, Head(to_fetch) \o ".json", data.body[1]),
                            Tail(to_fetch), served,
                            Append(fetched, [unit |-> Head(to_fetch), outcome |-> data]),
                            Append(written, Head(to_fetch) \o ".json"))
            ELSE IF Hawkeye500(data)
            THEN FetchStats(files, Tail(to_fetch), served,
                            Append(fetched, [unit |-> Head(to_fetch), outcome |-> data]),
                            written)
            ELSE [status |-> "raised", files |-> files,
                  fetched |-> Append(fetched, [unit |-> Head(to_fetch), outcome |-> data]),
                  written |-> written]
            : data \in {fetch_json(served[Head(to_fetch)])}})

\* a faulty variant of NotIn: nothing is left out
NotIn_Everything(units, existing) == units

\* to_fetch = [u for u in units if u not in existing]
NotIn(units, existing) == SelectSeq(units, LAMBDA u : u \notin existing)

\* The statistics document of a match, as far as _parse_match branches on
\* it: the round name, the match type, the winner, and for either team the
\* player, the partner and the set blocks, of which Stats may be empty.
ROUND_DISPLAY_MAP ==
    [n \in {"Final", "Semifinals", "Quarterfinals", "Round of 16", "Round of 32",
            "Round of 64", "Round of 128", "Round Robin", "1st Round Qualifying",
            "2nd Round Qualifying", "3rd Round Qualifying", "Bronze Medal Match",
            "Third Place"} |->
        CASE n = "Final" -> "F" [] n = "Semifinals" -> "SF" [] n = "Quarterfinals" -> "QF"
          [] n = "Round of 16" -> "R16" [] n = "Round of 32" -> "R32"
          [] n = "Round of 64" -> "R64" [] n = "Round of 128" -> "R128"
          [] n = "Round Robin" -> "RR" [] n = "1st Round Qualifying" -> "Q1"
          [] n = "2nd Round Qualifying" -> "Q2" [] n = "3rd Round Qualifying" -> "Q3"
          [] n = "Bronze Medal Match" -> "BRONZE" [] OTHER -> "THIRDPLACE"]

\* MatchStatsRecord(...) of one set block of my_team, and its model_dump:
\* [ok, row]
StatsRow(data, match_code, my_team, their_team, set_data) ==
    Only({
        IF ~made.ok \/ ~match_uid(made.record).ok THEN [ok |-> FALSE, row |-> <<>>]
        ELSE [ok |-> TRUE, row |->
                [match_uid |-> match_uid(made.record).value, match_code |-> match_code,
                 round |-> made.record.round, is_doubles |-> made.record.is_doubles,
                 player_id |-> made.record.a_id, opponent_id |-> made.record.b_id,
                 player_partner_id |-> made.record.a_partner_id,
                 opponent_partner_id |-> made.record.b_partner_id,
                 is_winner |-> Upper(my_team.PlayerId) = Upper(data.WinningPlayerId),
                 set_num |-> set_data.SetNumber, set_score |-> set_data.SetScore,
                 tiebreak_score |-> set_data.TieBreakScore,
                 svc_aces |-> set_data.Stats[1]]]
        : made \in {Construct(
            [cls |-> "MatchStatsRecord", tournament_id |-> TOURNAMENT_ID, year |-> YEAR,
             round |-> ROUND_DISPLAY_MAP[data.RoundName], is_doubles |-> data.IsDoubles,
             a_id |-> my_team.PlayerId, b_id |-> their_team.PlayerId,
             a_partner_id |-> IF data.IsDoubles THEN my_team.PartnerId ELSE NONE,
             a_partner_name |-> IF data.IsDoubles THEN "P. Partner" ELSE NONE,
             b_partner_id |-> IF data.IsDoubles THEN their_team.PartnerId ELSE NONE,
             b_partner_name |-> IF data.IsDoubles THEN "O. Partner" ELSE NONE,
             time_estimated |-> TRUE, start_time_utc |-> <<>>])}})

\* for set_data in my_team["SetScores"]: a block without Stats is passed over
RECURSIVE TeamRows(_, _, _, _, _)
TeamRows(data, match_code, my_team, their_team, set_scores) ==
    IF set_scores = <<>> THEN Rows(<<>>)
    ELSE IF Head(set_scores).Stats = <<>>
    THEN TeamRows(data, match_code, my_team, their_team, Tail(set_scores))
    ELSE Only({
            IF ~first.ok \/ ~rest.ok THEN RowsError
            ELSE Rows(<<first.row>> \o rest.rows)
            : first \in {StatsRow(data, match_code, my_team, their_team, Head(set_scores))},
              rest \in {TeamRows(data, match_code, my_team, their_team, Tail(set_scores))}})

\* a faulty variant of _parse_match: the second pass keeps the perspective
\* of the first
_parse_match_OnePerspective(data, match_code) ==
    IF data.RoundName \notin DOMAIN ROUND_DISPLAY_MAP THEN RowsError
    ELSE Only({
            IF ~mine.ok \/ ~theirs.ok THEN RowsError ELSE Rows(mine.rows \o theirs.rows)
            : mine \in {TeamRows(data, match_code, data.PlayerTeam, data.OpponentTeam,
                                 data.PlayerTeam.SetScores)},
              theirs \in {TeamRows(data, match_code, data.PlayerTeam, data.OpponentTeam,
                                   data.OpponentTeam.SetScores)}})

\* _parse_match(data, match_code) and the model_dump of its records: the
\* rows of the player's team, then those of the opponent's; an unknown
\* round name raises
_parse_match(data, match_code) ==
    IF data.RoundName \notin DOMAIN ROUND_DISPLAY_MAP THEN RowsError
    ELSE Only({
            IF ~mine.ok \/ ~theirs.ok THEN RowsError ELSE Rows(mine.rows \o theirs.rows)
            : mine \in {TeamRows(data, match_code, data.PlayerTeam, data.OpponentTeam,
                                 data.PlayerTeam.SetScores)},
              theirs \in {TeamRows(data, match_code, data.OpponentTeam, data.PlayerTeam,
                                   data.OpponentTeam.SetScores)}})

StatsStageDir == _build_path("stage", TournamentPath \o "/match_stats")
StatsName == "match_stats.parquet"

\* the loop of MatchStatsStager.run over to_process, the names of the raw
\* files: read, parse, pass over a match without records, save
RECURSIVE StageStats(_, _, _, _)
StageStats(files, to_process, parsed, written) ==
    IF to_process = <<>>
    THEN [status |-> "returned", files |-> files, parsed |-> parsed, written |-> written]
    ELSE Only({
            IF ~records.ok
            THEN [status |-> "raised", files |-> files,
                  parsed |-> Append(parsed, Stem(Head(to_process))), written |-> written]
            ELSE IF records.rows = <<>>
            THEN StageStats(files, Tail(to_process),
                            Append(parsed, Stem(Head(to_process))), written)
            ELSE StageStats(save_parquet(files, StatsStageDir,
                                         Stem(Head(to_process)) \o ".parquet", records.rows),
                            Tail(to_process), Append(parsed, Stem(Head(to_process))),
                            Append(written, Stem(Head(to_process)) \o ".parquet"))
            : records \in {_parse_match(read_json(files, StatsRawDir, Head(to_process)),
                                        Stem(Head(to_process)))}})

\* [f for f in files if f.stem not in existing]
StemNotIn(names, existing) == SelectSeq(names, LAMBDA f : Stem(f) \notin existing)

(***************************************************************************)
(* atp/tournament/match_stats.py: MatchStatsTransformer                    *)
(***************************************************************************)
\* the greatest of a non-empty set of integers
Max(S) == CHOOSE n \in S : \A m \in S : m <= n

\* a < b and a + b on columns that may hold null
OptLess(a, b) == IF a = <<>> \/ b = <<>> THEN <<>> ELSE <<a[1] < b[1]>>
Coalesce(a, b) == IF a # <<>> THEN a ELSE b

\* a faulty variant of WinnerTb: every tiebreak is won with 7 points
WinnerTb_AlwaysSeven(loser_tb) == 7

\* winner_tb: 7 against a loser below 6 points, two more than the loser otherwise
WinnerTb(loser_tb) == IF loser_tb[1] < 6 THEN 7 ELSE loser_tb[1] + 2

\* the columns derived for one row of the frame joined with the row of the
\* opponent (opp: the opponent's set_score and tiebreak_score, null when the
\* join finds no row)
Derived(row, sets_played, opp) ==
    [match_uid |-> row.match_uid, match_code |-> row.match_code, round |-> row.round,
     is_doubles |-> row.is_doubles, player_id |-> row.player_id,
     opponent_id |-> row.opponent_id, player_partner_id |-> row.player_partner_id,
     opponent_partner_id |-> row.opponent_partner_id, is_winner |-> row.is_winner,
     set_num |-> row.set_num, set_score |-> row.set_score,
     tiebreak_score |-> row.tiebreak_score, svc_aces |-> row.svc_aces,
     sets_played |-> sets_played,
     won_set |-> IF row.set_num = 0 THEN <<>> ELSE OptLess(opp.set_score, row.set_score),
     tiebreak_points_won |->
        IF row.tiebreak_score # <<>> THEN row.tiebreak_score
        ELSE IF opp.tiebreak_score # <<>> THEN <<WinnerTb(opp.tiebreak_score)>>
        ELSE <<>>,
     tiebreak_points_played |->
        IF Coalesce(row.tiebreak_score, opp.tiebreak_score) # <<>>
        THEN <<Coalesce(row.tiebreak_score, opp.tiebreak_score)[1]
               + WinnerTb(Coalesce(row.tiebreak_score, opp.tiebreak_score))>>
        ELSE <<>>]

NoOpponent == [set_score |-> <<>>, tiebreak_score |-> <<>>]

\* the left join of one row with the rows of opp: one row for every match
\* in the order of the frame, one row of nulls when there is none
JoinRow(df, row, sets_played) ==
    Only({IF matches = <<>> THEN <<Derived(row, sets_played, NoOpponent)>>
          ELSE [k \in 1..Len(matches) |-> Derived(row, sets_played, matches[k])]
          : matches \in {SelectSeq(df, LAMBDA o :
                            /\ o.match_code = row.match_code
                            /\ o.set_num = row.set_num
                            /\ o.player_id = row.opponent_id)}})

RECURSIVE JoinRows(_, _)
JoinRows(df, i) ==
    IF i > Len(df) THEN <<>>
    ELSE JoinRow(df, df[i],
                 Max({df[k].set_num : k \in {j \in 1..Len(df) :
                                                df[j].match_code = df[i].match_code}}))
         \o JoinRows(df, i + 1)

\* _add_derived_columns(df)
_add_derived_columns(df) == JoinRows(df, 1)

(***************************************************************************)
(* atp/tournament/results.py: ResultsTransformer                           *)
(*                                                                         *)
(* A results page is the sequence of its day blocks, a day block the       *)
(* sequence of its match blocks.  Of a match block the model keeps the     *)
(* text of the notes, the round, the duration, the stats items (whether    *)
(* the item carries the winner mark, the player and the partner), the      *)
(* two scores divs and the match code of the Stats link.  A scores div is  *)
(* the sequence of its score items, the leading spacer included; a score   *)
(* item is the sequence of the numbers in its spans.                       *)
(***************************************************************************)
\* sub in s
HasSub(s, sub) == \E i \in 1..(Len(s) - Len(sub) + 1) : SubSeq(s, i, i + Len(sub) - 1) = sub

\* s.startswith(prefix)
StartsWith(s, prefix) == Len(s) >= Len(prefix) /\ SubSeq(s, 1, Len(prefix)) = prefix

\* a faulty variant of _determine_status: a match in progress counts as
\* completed
_determine_status_NeverNone(notes_text) ==
    IF HasSub(notes_text, "by Walkover") THEN "walkover"
    ELSE IF HasSub(notes_text, "RET") THEN "retired" ELSE "completed"

\* _determine_status(notes_text): NONE for a match in progress
_determine_status(notes_text) ==
    IF HasSub(notes_text, "by Walkover") THEN "walkover"
    ELSE IF StartsWith(notes_text, "Game Set and Match")
    THEN IF HasSub(notes_text, "RET") THEN "retired" ELSE "completed"
    ELSE NONE

\* the last stats item with (without) the winner mark, <<>> when there is none
LastSide(stats_items, is_winner) ==
    Only({IF marked = <<>> THEN <<>> ELSE <<marked[Len(marked)]>>
          : marked \in {SelectSeq(stats_items, LAMBDA item : item.winner = is_winner)}})

\* a faulty variant of SetScores: the tiebreak is read from the loser first
SetScores_LoserFirst(w_items, l_items, i) ==
    IF i > Len(w_items) \/ i > Len(l_items) THEN [w |-> <<>>, l |-> <<>>, tb |-> <<>>]
    ELSE IF w_items[i] = <<>> \/ l_items[i] = <<>> THEN [w |-> <<>>, l |-> <<>>, tb |-> <<>>]
    ELSE [w |-> <<w_items[i][1]>>, l |-> <<l_items[i][1]>>,
          tb |-> IF Len(l_items[i]) > 1 THEN <<l_items[i][2]>>
                 ELSE IF Len(w_items[i]) > 1 THEN <<w_items[i][2]>>
                 ELSE <<>>]

\* one pass of the loop: w_set, l_set and tb_set of set i
SetScores(w_items, l_items, i) ==
    IF i > Len(w_items) \/ i > Len(l_items) THEN [w |-> <<>>, l |-> <<>>, tb |-> <<>>]
    ELSE IF w_items[i] = <<>> \/ l_items[i] = <<>> THEN [w |-> <<>>, l |-> <<>>, tb |-> <<>>]
    ELSE [w |-> <<w_items[i][1]>>, l |-> <<l_items[i][1]>>,
          tb |-> IF Len(w_items[i]) > 1 THEN <<w_items[i][2]>>
                 ELSE IF Len(l_items[i]) > 1 THEN <<l_items[i][2]>>
                 ELSE <<>>]

\* f"{w_games}-{l_games}({tb})" or f"{w_games}-{l_games}"
ScorePart(set) ==
    NatToStr(set.w[1]) \o "-" \o NatToStr(set.l[1])
        \o (IF set.tb # <<>> THEN "(" \o NatToStr(set.tb[1]) \o ")" ELSE "")

\* " ".join(score_parts)
RECURSIVE JoinSpace(_)
JoinSpace(parts) ==
    IF parts = <<>> THEN ""
    ELSE IF Len(parts) = 1 THEN parts[1]
    ELSE parts[1] \o " " \o JoinSpace(Tail(parts))

\* _parse_scores(winner_scores_div, loser_scores_div, status)
_parse_scores(winner_scores_div, loser_scores_div, status) ==
    LET w_items == IF winner_scores_div = <<>> THEN <<>> ELSE Tail(winner_scores_div)
        l_items == IF loser_scores_div = <<>> THEN <<>> ELSE Tail(loser_scores_div)
        sets == [i \in _SET_FIELDS |-> SetScores(w_items, l_items, i)]
        score_parts == [k \in 1..Len(SelectSeq(sets, LAMBDA s : s.w # <<>>)) |->
                            ScorePart(SelectSeq(sets, LAMBDA s : s.w # <<>>)[k])]
    IN  [score |-> JoinSpace(score_parts) \o (IF status = "retired" THEN " RET" ELSE ""),
         sets |-> sets]

NoSets == [i \in _SET_FIELDS |-> [w |-> <<>>, l |-> <<>>, tb |-> <<>>]]

\* the dictionary _parse_match returns
ResultsDict(match_div, tournament_day, is_doubles, status, winner_dict, loser_dict) ==
    [tournament_id |-> TOURNAMENT_ID, year |-> YEAR, tournament_day |-> tournament_day,
     round |-> ROUND_DISPLAY_MAP[match_div.round_text], is_doubles |-> is_doubles,
     match_status |-> status,
     duration_seconds |-> IF status # "walkover" THEN match_div.duration ELSE <<>>,
     score |-> IF status = "walkover" THEN ""
               ELSE _parse_scores(match_div.scores.winner, match_div.scores.loser,
                                  status).score,
     sets |-> IF status = "walkover" THEN NoSets
              ELSE _parse_scores(match_div.scores.winner, match_div.scores.loser,
                                 status).sets,
     winner_id |-> winner_dict.id,
     winner_partner_id |-> IF is_doubles THEN winner_dict.partner_id ELSE NONE,
     winner_partner_name |-> IF is_doubles THEN "W. Partner" ELSE NONE,
     loser_id |-> loser_dict.id,
     loser_partner_id |-> IF is_doubles THEN loser_dict.partner_id ELSE NONE,
     loser_partner_name |-> IF is_doubles THEN "L. Partner" ELSE NONE,
     match_code |-> match_div.match_code]

\* what _parse_match gives: a dictionary, None, or an exception
Skipped == [ok |-> TRUE, record |-> <<>>]
ParseRaised == [ok |-> FALSE, record |-> <<>>]

\* _parse_match(match_div, match_date, tournament_day, is_doubles) once the
\* status is known: without a side that is not marked the match is passed
\* over, without a marked side reading the winner raises
SidesOf(match_div, tournament_day, is_doubles, status, winner_dict, loser_dict) ==
    IF loser_dict = <<>> THEN Skipped
    ELSE IF winner_dict = <<>> THEN ParseRaised
    ELSE [ok |-> TRUE,
          record |-> <<ResultsDict(match_div, tournament_day, is_doubles, status,
                                   winner_dict[1], loser_dict[1])>>]

Results_parse_match(match_div, tournament_day, is_doubles) ==
    IF _determine_status(match_div.notes_text) = NONE THEN Skipped
    ELSE IF match_div.round_text \notin DOMAIN ROUND_DISPLAY_MAP THEN ParseRaised
    ELSE SidesOf(match_div, tournament_day, is_doubles,
                 _determine_status(match_div.notes_text),
                 LastSide(match_div.stats_items, TRUE),
                 LastSide(match_div.stats_items, FALSE))

\* the records of the match blocks of one day: [ok, rows]
RECURSIVE ParseMatches(_, _, _)
ParseMatches(match_divs, tournament_day, is_doubles) ==
    IF match_divs = <<>> THEN Rows(<<>>)
    ELSE Only({
            IF ~record.ok \/ ~rest.ok THEN RowsError
            ELSE Rows(record.record \o rest.rows)
            : record \in {Results_parse_match(Head(match_divs), tournament_day, is_doubles)},
              rest \in {ParseMatches(Tail(match_divs), tournament_day, is_doubles)}})

RECURSIVE ParseDays(_, _)
ParseDays(accordion_items, is_doubles) ==
    IF accordion_items = <<>> THEN Rows(<<>>)
    ELSE Only({
            IF ~day.ok \/ ~rest.ok THEN RowsError ELSE Rows(day.rows \o rest.rows)
            : day \in {ParseMatches(Head(accordion_items).match_divs,
                                    Head(accordion_items).tournament_day, is_doubles)},
              rest \in {ParseDays(Tail(accordion_items), is_doubles)}})

\* _parse_html(html_path, is_doubles): a page without day blocks gives []
_parse_html(html, is_doubles) ==
    IF html = <<>> THEN Rows(<<>>) ELSE ParseDays(html, is_doubles)

RawDir == _build_path("raw", TournamentPath)
SinglesName == "results_singles.html"
DoublesName == "results_doubles.html"

\* records.extend(self._parse_html(path, is_doubles)) if path.exists()
PageRecords(files, name, is_doubles) ==
    IF Exists(files, RawDir, name) THEN _parse_html(read_html(files, RawDir, name), is_doubles)
    ELSE Rows(<<>>)

\* ResultsRecord(**r).model_dump() of one dictionary: [ok, row]
ResultsRow(r) ==
    Only({
        IF ~made.ok THEN [ok |-> FALSE, row |-> r]
        ELSE Only({IF ~uid.ok THEN [ok |-> FALSE, row |-> r]
                   ELSE [ok |-> TRUE, row |-> made.record]
                   : uid \in {create_match_uid(made.record.year, made.record.tournament_id,
                                               made.record.round, made.record.winner_id,
                                               made.record.loser_id,
                                               made.record.is_doubles)}})
        : made \in {ResultsRecord(r)}})

\* a faulty variant of ResultsFrame: the records that raise are left out
ResultsFrame_ValidOnly(records) ==
    Only({Rows([i \in 1..Len(kept) |-> kept[i].row])
          : kept \in {SelectSeq([i \in 1..Len(records) |-> ResultsRow(records[i])],
                                LAMBDA d : d.ok)}})

\* validated = [ResultsRecord(**r) for r in records] and the frame of their
\* model_dump
ResultsFrame(records) ==
    Only({IF \A i \in 1..Len(records) : dumped[i].ok
          THEN Rows([i \in 1..Len(records) |-> dumped[i].row])
          ELSE RowsError
          : dumped \in {[i \in 1..Len(records) |-> ResultsRow(records[i])]}})

\* ResultsTransformer.run() on a data directory: how it ends and the frame
\* it saves
ResultsRun(files) ==
    Only({
        IF ~singles.ok \/ ~doubles.ok THEN [status |-> "raised", rows |-> <<>>]
        ELSE IF singles.rows \o doubles.rows = <<>> THEN [status |-> "noop", rows |-> <<>>]
        ELSE Only({IF df.ok THEN [status |-> "saved", rows |-> df.rows]
                   ELSE [status |-> "raised", rows |-> <<>>]
                   : df \in {ResultsFrame(singles.rows \o doubles.rows)}})
        : singles \in {PageRecords(files, SinglesName, FALSE)},
          doubles \in {IF PageRecords(files, SinglesName, FALSE).ok
                       THEN PageRecords(files, DoublesName, TRUE) ELSE RowsError}})

(***************************************************************************)
(* atp/rankings.py: RankingsExtractor and RankingsTransformer              *)
(*                                                                         *)
(* A date is kept as its ISO text, "2026-01-05": of equal width, so the    *)
(* order of the texts is the order of the dates.  The discovery page is    *)
(* whether it has the DateWeek dropdown, and the values of its options; a  *)
(* rankings page is whether it has the table, and the rows of the table.   *)
(***************************************************************************)
START_YEAR == 2025

RankingsRawDir == _build_path("raw", "rankings")
RankingsStageDir == _build_path("stage", "rankings")

\* d.year
YearOf(d) == StrToNat(SubSeq(d, 1, 4))

\* ranking_date.strftime("%Y%m%d")
strftime_Ymd(d) == SubSeq(d, 1, 4) \o SubSeq(d, 6, 7) \o SubSeq(d, 9, 10)

\* date(int(d[:4]), int(d[4:6]), int(d[6:8])) of the text after
\* "rankings_singles_" in a stem: [ok, value]
DateOfStamp(d) ==
    IF Len(d) = 8 /\ FieldsToDateTime(<<SubSeq(d, 1, 4), SubSeq(d, 5, 6), SubSeq(d, 7, 8),
                                        "0", "0", "0">>).ok
    THEN [ok |-> TRUE, value |-> SubSeq(d, 1, 4) \o "-" \o SubSeq(d, 5, 6) \o "-" \o SubSeq(d, 7, 8)]
    ELSE [ok |-> FALSE, value |-> ""]

_parse_date_from_stem(stem) == DateOfStamp(RemoveAll(stem, "rankings_singles_"))

\* sorted(dates) of a list: insertion into the sorted rest
RECURSIVE InsertDate(_, _)
InsertDate(d, sorted) ==
    IF sorted = <<>> THEN <<d>>
    ELSE IF StrLess(Head(sorted), d) THEN <<Head(sorted)>> \o InsertDate(d, Tail(sorted))
    ELSE <<d>> \o sorted

RECURSIVE SortedDates(_)
SortedDates(dates) ==
    IF dates = <<>> THEN <<>> ELSE InsertDate(Head(dates), SortedDates(Tail(dates)))

\* _get_available_dates(html): [ok, dates], the dates sorted
_get_available_dates(html) ==
    IF ~html.dropdown THEN [ok |-> FALSE, dates |-> <<>>]
    ELSE Only({IF \E i \in 1..Len(values) : ~fromisoformat(values[i]).ok
               THEN [ok |-> FALSE, dates |-> <<>>]
               ELSE [ok |-> TRUE, dates |-> SortedDates(values)]
               : values \in {SelectSeq(html.options, LAMBDA value : value # "Current Week")}})

\* _get_existing_dates(): the dates of the pages in raw/rankings
_get_existing_dates(files) ==
    Only({IF \E i \in 1..Len(names) : ~_parse_date_from_stem(Stem(names[i])).ok
          THEN [ok |-> FALSE, dates |-> {}]
          ELSE [ok |-> TRUE,
                dates |-> {_parse_date_from_stem(Stem(names[i])).value : i \in 1..Len(names)}]
          : names \in {list_files(files, RankingsRawDir, "rankings_singles_*.html")}})

RankingsFile(ranking_date) == "rankings_singles_" \o strftime_Ymd(ranking_date) \o ".html"

\* the loop of RankingsExtractor.run over to_fetch: fetch, save
RECURSIVE FetchRankings(_, _, _, _, _)
FetchRankings(files, to_fetch, served, fetched, written) ==
    IF to_fetch = <<>>
    THEN [status |-> "returned", files |-> files, fetched |-> fetched, written |-> written]
    ELSE Only({
            IF page_html.ok
            THEN FetchRankings(save_html(files, RankingsRawDir, RankingsFile(Head(to_fetch)),
                                         page_html.body[1]),
                               Tail(to_fetch), served,
                               Append(fetched, [unit |-> Head(to_fetch), outcome |-> page_html]),
                               Append(written, RankingsFile(Head(to_fetch))))
            ELSE [status |-> "raised", files |-> files,
                  fetched |-> Append(fetched, [unit |-> Head(to_fetch), outcome |-> page_html]),
                  written |-> written]
            : page_html \in {fetch_html(served[Head(to_fetch)])}})

\* rank_text.rstrip("T")
RECURSIVE RStripT(_)
RStripT(s) ==
    IF s # "" /\ CharAt(s, Len(s)) = "T" THEN RStripT(SubSeq(s, 1, Len(s) - 1)) ELSE s

\* _parse_rankings_page(html, ranking_date): a page without the table
\* raises, a row without a rank cell is an advertisement
_parse_rankings_page(html, ranking_date) ==
    IF ~html.table THEN RowsError
    ELSE Only({Rows([i \in 1..Len(rows) |->
                        [ranking_date |-> ranking_date,
                         rank |-> StrToNat(RStripT(rows[i].rank[1])),
                         player_id |-> _uppercase_or_none(rows[i].player_id)]])
               : rows \in {SelectSeq(html.rows, LAMBDA tr : tr.rank # <<>>)}})

\* records = self._parse_rankings_page(self.read_html(html_path), ranking_date)
ParsedPage(files, name, ranking_date) ==
    IF ranking_date.ok
    THEN _parse_rankings_page(read_html(files, RankingsRawDir, name), ranking_date.value)
    ELSE RowsError

\* the loop of RankingsTransformer.run over to_process
RECURSIVE StageRankings(_, _, _, _)
StageRankings(files, to_process, parsed, written) ==
    IF to_process = <<>>
    THEN [status |-> "returned", files |-> files, parsed |-> parsed, written |-> written]
    ELSE Only({
            IF ~ParsedPage(files, Head(to_process), ranking_date).ok
            THEN [status |-> "raised", files |-> files,
                  parsed |-> Append(parsed, Stem(Head(to_process))), written |-> written]
            ELSE StageRankings(save_parquet(files, RankingsStageDir,
                                            Stem(Head(to_process)) \o ".parquet",
                                            ParsedPage(files, Head(to_process), ranking_date).rows),
                               Tail(to_process), Append(parsed, Stem(Head(to_process))),
                               Append(written, Stem(Head(to_process)) \o ".parquet"))
            : ranking_date \in {_parse_date_from_stem(Stem(Head(to_process)))}})

(***************************************************************************)
(* atp/tournament/schedule.py: ScheduleExtractor.run, ScheduleStager.run   *)
(*                                                                         *)
(* A raw snapshot holds the page: whether it has the tournament-day        *)
(* heading, the date and the day of the heading, and the match tags.       *)
(***************************************************************************)
ScheduleRawDir == _build_path("raw", TournamentPath \o "/schedule")

SchedulePage(day_div, day, tags) ==
    [day_div |-> day_div, matchdate |-> MatchDate(day), tournament_day |-> day, tags |-> tags]

\* _parse_snapshot(html_path) on a raw snapshot: the stamp of the name is
\* read first; a page with neither the day heading nor a match tag gives
\* []; without the heading day_div.find raises
ParseSnapshotFile(stem, page) ==
    IF ~strptime_stamp(RemoveAll(stem, "schedule_")).ok THEN [ok |-> FALSE, records |-> <<>>]
    ELSE IF ~page.day_div /\ page.tags = <<>> THEN [ok |-> TRUE, records |-> <<>>]
    ELSE IF ~page.day_div THEN [ok |-> FALSE, records |-> <<>>]
    ELSE _parse_snapshot(stem, page.matchdate, page.tournament_day, page.tags)

\* the loop of ScheduleStager.run over html_files
RECURSIVE StageSchedule(_, _, _, _)
StageSchedule(files, html_files, parsed, written) ==
    IF html_files = <<>>
    THEN [status |-> "returned", files |-> files, parsed |-> parsed, written |-> written]
    ELSE Only({
            IF ~records.ok
            THEN [status |-> "raised", files |-> files,
                  parsed |-> Append(parsed, Stem(Head(html_files))), written |-> written]
            ELSE IF records.records = <<>>
            THEN StageSchedule(files, Tail(html_files),
                               Append(parsed, Stem(Head(html_files))), written)
            ELSE StageSchedule(save_parquet(files, StageDir,
                                            Stem(Head(html_files)) \o ".parquet",
                                            records.records),
                               Tail(html_files), Append(parsed, Stem(Head(html_files))),
                               Append(written, Stem(Head(html_files)) \o ".parquet"))
            : records \in {ParseSnapshotFile(Stem(Head(html_files)),
                                             read_html(files, ScheduleRawDir, Head(html_files)))}})

(***************************************************************************)
(* The jobs as operations on the data directory.  The datasets (the        *)
(* schedule; the results and the match statistics; the rankings) live in   *)
(* directories of their own and are followed one at a time.                *)
(***************************************************************************)
JobFamily(name) ==
    IF name \in {"ScheduleExtractor", "ScheduleStager", "ScheduleTransformer"} THEN "schedule"
    ELSE IF name \in {"RankingsExtractor", "RankingsTransformer"} THEN "rankings"
    ELSE IF name = "" THEN "" ELSE "results"

InFamily(family) == JobFamily(job.name) \in {"", family}

\* a run of a job: the directory it leaves, and what is kept of the run
Ran(name, status, files, units, existing, fetched, parsed, written) ==
    /\ tree' = files
    /\ job' = JobLog(name, status, tree, units, existing, fetched, parsed, written)
    /\ JobFrame

\* ---- what the upstream serves -------------------------------------------
Unavailable == Status(503)

\* schedule pages: no heading and no match; one singles match; a match
\* with an undetermined side; match tags without the day heading; a match
\* of a round the Round enum does not have
SchedulePages ==
    {SchedulePage(FALSE, 1, <<>>),
     SchedulePage(TRUE, 1, <<DedupTag(1, 1)>>),
     SchedulePage(TRUE, 1, <<DedupTag(1, 4)>>),
     SchedulePage(FALSE, 1, <<DedupTag(1, 1)>>),
     SchedulePage(TRUE, 1, <<Tag("Centre", "R48", FALSE, Single("EF56"), Single("GH78"),
                                 "Starts At", "2026-02-04 11:00:00")>>)}

ScheduleServings == {Page(page) : page \in SchedulePages} \cup {Unavailable}

\* results pages
StatsItem(winner, id, partner_id) == [winner |-> winner, id |-> id, partner_id |-> partner_id]

\* the scores divs of a block: 6-4 6-3
TwoSets ==
    [winner |-> <<<<>>, <<6>>, <<6>>>>, loser |-> <<<<>>, <<4>>, <<3>>>>]

\* the scores of a block whose first score item shows no games
SecondSetOnly ==
    [winner |-> <<<<>>, <<>>, <<6>>>>, loser |-> <<<<>>, <<>>, <<3>>>>]

MatchDiv(notes_text, round_text, match_code, stats_items) ==
    [notes_text |-> notes_text, round_text |-> round_text, duration |-> <<4500>>,
     stats_items |-> stats_items, scores |-> TwoSets, match_code |-> match_code]

Finished(match_code, w, l) ==
    MatchDiv("Game Set and Match " \o w, "Quarterfinals", match_code,
             <<StatsItem(TRUE, w, NONE), StatsItem(FALSE, l, NONE)>>)

InProgress ==
    MatchDiv("", "Quarterfinals", NONE,
             <<StatsItem(FALSE, "ab12", NONE), StatsItem(FALSE, "cd34", NONE)>>)

DayItem(tournament_day, match_divs) ==
    [tournament_day |-> tournament_day, match_divs |-> match_divs]

\* singles pages: no day block; a match in progress; two days of finished
\* matches; a finished match without a Stats link; a round the map does
\* not know
SinglesPages ==
    {<<>>,
     <<DayItem(1, <<InProgress>>)>>,
     <<DayItem(1, <<Finished("ms001", "ab12", "cd34")>>),
       DayItem(2, <<Finished("ms002", "ef56", "ab12"), InProgress>>)>>,
     <<DayItem(1, <<Finished(NONE, "ab12", "cd34")>>)>>,
     <<DayItem(1, <<[Finished("ms001", "ab12", "cd34") EXCEPT !.scores = SecondSetOnly]>>)>>,
     <<DayItem(1, <<MatchDiv("Game Set and Match", "Round of 48", "ms003",
                             <<StatsItem(TRUE, "ab12", NONE),
                               StatsItem(FALSE, "cd34", NONE)>>)>>)>>}

\* doubles pages: no day block; a finished match without a Stats link, the
\* second item carrying the winner mark
DoublesPages ==
    {<<>>,
     <<DayItem(1, <<MatchDiv("Game Set and Match", "Semifinals", NONE,
                             <<StatsItem(FALSE, "gh78", "ij90"),
                               StatsItem(TRUE, "kl12", "mn34")>>)>>)>>}

\* what the two fetches of ResultsExtractor.run are answered
ResultsServings ==
    {<<Page(singles), Page(<<>>)>> : singles \in SinglesPages}
        \cup {<<Page(<<>>), Page(doubles)>> : doubles \in DoublesPages}
        \cup {<<Unavailable, Page(<<>>)>>, <<Page(<<>>), Unavailable>>}

\* statistics documents: two set blocks with statistics for either player;
\* no statistics at all; a round the map does not know
SetBlock(set_num, set_score, tiebreak_score, stats) ==
    [SetNumber |-> set_num, SetScore |-> set_score, TieBreakScore |-> tiebreak_score,
     Stats |-> stats]

StatsDoc(round_name, winner_sets, loser_sets) ==
    [RoundName |-> round_name, IsDoubles |-> FALSE, WinningPlayerId |-> "ab12",
     PlayerTeam |-> [PlayerId |-> "AB12", PartnerId |-> NONE, SetScores |-> winner_sets],
     OpponentTeam |-> [PlayerId |-> "CD34", PartnerId |-> NONE, SetScores |-> loser_sets]]

PlayedDoc ==
    StatsDoc("Quarterfinals",
             <<SetBlock(0, <<>>, <<>>, <<7>>), SetBlock(1, <<7>>, <<>>, <<7>>)>>,
             <<SetBlock(0, <<>>, <<>>, <<2>>), SetBlock(1, <<6>>, <<5>>, <<2>>)>>)

StatsDocs ==
    {PlayedDoc,
     StatsDoc("Quarterfinals", <<SetBlock(0, <<>>, <<>>, <<>>)>>,
              <<SetBlock(0, <<>>, <<>>, <<>>)>>),
     StatsDoc("Round of 48", <<SetBlock(0, <<>>, <<>>, <<7>>)>>,
              <<SetBlock(0, <<>>, <<>>, <<2>>)>>)}

StatsServings ==
    {Page(doc) : doc \in StatsDocs}
        \cup {Status(500), Status(404), Status(0), Recovered(PlayedDoc)}

\* rankings: the discovery page and the page of a date
DiscoveryPages ==
    {[dropdown |-> TRUE,
      options |-> <<"Current Week", "2026-01-12", "2024-12-30", "2026-01-05">>],
     [dropdown |-> FALSE, options |-> <<>>]}
DiscoveryServings == {Page(page) : page \in DiscoveryPages} \cup {Unavailable}

RankRow(rank, player_id) == [rank |-> rank, player_id |-> player_id]

RankingsPages ==
    {[table |-> TRUE,
      rows |-> <<RankRow(<<"1">>, "ab12"), RankRow(<<>>, NONE), RankRow(<<"2T">>, "cd34")>>],
     [table |-> FALSE, rows |-> <<>>]}

RankingsServings ==
    {Page(page) : page \in RankingsPages}
        \cup {Unavailable, Status(0)}

\* ---- the runs -----------------------------------------------------------
\* ScheduleExtractor.run(tournament): the page is saved under the time of
\* the fetch
ScheduleExtractorRun ==
    /\ InFamily("schedule")
    /\ Len(list_files(tree, ScheduleRawDir, "schedule_*.html")) < Len(SnapshotStems)
    /\ \E served \in ScheduleServings,
          name \in {SnapshotStems[Len(list_files(tree, ScheduleRawDir, "schedule_*.html")) + 1]
                    \o ".html"} :
        \E html \in {fetch_html(served)} :
            IF html.ok
            THEN Ran("ScheduleExtractor", "returned",
                     save_html(tree, ScheduleRawDir, name, html.body[1]),
                     <<name>>, {}, <<[unit |-> name, outcome |-> html]>>, <<>>, <<name>>)
            ELSE Ran("ScheduleExtractor", "raised", tree,
                     <<name>>, {}, <<[unit |-> name, outcome |-> html]>>, <<>>, <<>>)

\* ScheduleStager.run()
ScheduleStagerRun ==
    /\ InFamily("schedule")
    /\ \E html_files \in {list_files(tree, ScheduleRawDir, "schedule_*.html")} :
        \E r \in {StageSchedule(tree, html_files, <<>>, <<>>)} :
            Ran("ScheduleStager", r.status, r.files, html_files, {}, <<>>, r.parsed, r.written)

\* ScheduleTransformer.run() among the jobs of the schedule
ScheduleTransformerRun == InFamily("schedule") /\ RunTransformer

\* ResultsExtractor.run(tournament): _fetch_singles, then _fetch_doubles
ResultsExtractorRun ==
    /\ InFamily("results")
    /\ \E served \in ResultsServings :
        \E s \in {fetch_html(served[1])}, d \in {fetch_html(served[2])} :
            IF ~s.ok
            THEN Ran("ResultsExtractor", "raised", tree, <<SinglesName, DoublesName>>, {},
                     <<[unit |-> SinglesName, outcome |-> s]>>, <<>>, <<>>)
            ELSE IF ~d.ok
            THEN Ran("ResultsExtractor", "raised",
                     save_html(tree, RawDir, SinglesName, s.body[1]),
                     <<SinglesName, DoublesName>>, {},
                     <<[unit |-> SinglesName, outcome |-> s],
                       [unit |-> DoublesName, outcome |-> d]>>, <<>>, <<SinglesName>>)
            ELSE Ran("ResultsExtractor", "returned",
                     save_html(save_html(tree, RawDir, SinglesName, s.body[1]),
                               RawDir, DoublesName, d.body[1]),
                     <<SinglesName, DoublesName>>, {},
                     <<[unit |-> SinglesName, outcome |-> s],
                       [unit |-> DoublesName, outcome |-> d]>>, <<>>,
                     <<SinglesName, DoublesName>>)

\* ResultsTransformer.run()
ResultsTransformerRun ==
    /\ InFamily("results")
    /\ \E r \in {ResultsRun(tree)} :
        Ran("ResultsTransformer", IF r.status = "raised" THEN "raised" ELSE "returned",
            IF r.status = "saved" THEN save_parquet(tree, TargetDir, ResultsName, r.rows)
            ELSE tree,
            list_files(tree, RawDir, "results_*.html"), {}, <<>>,
            list_files(tree, RawDir, "results_*.html"),
            IF r.status = "saved" THEN <<ResultsName>> ELSE <<>>)

\* MatchStatsExtractor.run(tournament)
MatchStatsExtractorRun ==
    /\ InFamily("results")
    /\ \E match_codes \in {_get_match_codes(tree)},
          existing \in {Stems(list_files(tree, StatsRawDir, "*.json"))} :
        IF match_codes = <<>>
        THEN Ran("MatchStatsExtractor", "returned", tree, <<>>, {}, <<>>, <<>>, <<>>)
        ELSE \E served \in [Range(NotIn(match_codes, existing)) -> StatsServings] :
                \E r \in {FetchStats(tree, NotIn(match_codes, existing), served, <<>>, <<>>)} :
                    Ran("MatchStatsExtractor", r.status, r.files, match_codes, existing,
                        r.fetched, <<>>, r.written)

\* MatchStatsStager.run()
MatchStatsStagerRun ==
    /\ InFamily("results")
    /\ \E json_files \in {list_files(tree, StatsRawDir, "*.json")},
          existing \in {Stems(list_files(tree, StatsStageDir, "*.parquet"))} :
        IF json_files = <<>>
        THEN Ran("MatchStatsStager", "returned", tree, <<>>, {}, <<>>, <<>>, <<>>)
        ELSE \E r \in {StageStats(tree, StemNotIn(json_files, existing), <<>>, <<>>)} :
                Ran("MatchStatsStager", r.status, r.files, json_files, existing, <<>>,
                    r.parsed, r.written)

\* MatchStatsTransformer.run()
MatchStatsTransformerRun ==
    /\ InFamily("results")
    /\ \E parquets \in {list_files(tree, StatsStageDir, "*.parquet")} :
        IF parquets = <<>>
        THEN Ran("MatchStatsTransformer", "returned", tree, <<>>, {}, <<>>, <<>>, <<>>)
        ELSE Ran("MatchStatsTransformer", "returned",
                 save_parquet(tree, TargetDir, StatsName,
                              _add_derived_columns(Concat(tree, StatsStageDir, parquets))),
                 parquets, {}, <<>>, parquets, <<StatsName>>)

\* RankingsExtractor.run(): the discovery page, the dates in range, the
\* dates already saved, then the loop
RankingsDates(files, available, existing, served_pages) ==
    IF ~available.ok \/ ~existing.ok
    THEN Ran("RankingsExtractor", "raised", files, <<>>, {}, <<>>, <<>>, <<>>)
    ELSE \E target_dates \in {SelectSeq(available.dates, LAMBDA d : YearOf(d) >= START_YEAR)} :
            \E served \in [Range(NotIn(target_dates, existing.dates)) -> served_pages] :
                \E r \in {FetchRankings(files, NotIn(target_dates, existing.dates), served,
                                        <<>>, <<>>)} :
                    Ran("RankingsExtractor", r.status, r.files, target_dates,
                        existing.dates, r.fetched, <<>>, r.written)

RankingsExtractorRun ==
    /\ InFamily("rankings")
    /\ \E discovery \in DiscoveryServings :
        \E html \in {fetch_html(discovery)} :
            IF ~html.ok
            THEN Ran("RankingsExtractor", "raised", tree, <<>>, {}, <<>>, <<>>, <<>>)
            ELSE RankingsDates(tree, _get_available_dates(html.body[1]),
                               _get_existing_dates(tree), RankingsServings)

\* RankingsTransformer.run()
RankingsTransformerRun ==
    /\ InFamily("rankings")
    /\ \E html_files \in {list_files(tree, RankingsRawDir, "rankings_singles_*.html")},
          existing \in {Stems(list_files(tree, RankingsStageDir, "*.parquet"))} :
        IF html_files = <<>>
        THEN Ran("RankingsTransformer", "returned", tree, <<>>, {}, <<>>, <<>>, <<>>)
        ELSE \E r \in {StageRankings(tree, StemNotIn(html_files, existing), <<>>, <<>>)} :
                Ran("RankingsTransformer", r.status, r.files, html_files, existing, <<>>,
                    r.parsed, r.written)

JobNext ==
    \/ ScheduleExtractorRun \/ ScheduleStagerRun \/ ScheduleTransformerRun
    \/ ResultsExtractorRun \/ ResultsTransformerRun
    \/ MatchStatsExtractorRun \/ MatchStatsStagerRun \/ MatchStatsTransformerRun
    \/ RankingsExtractorRun \/ RankingsTransformerRun

(***************************************************************************)
(* Properties of the job runs                                              *)
(***************************************************************************)
\* the units a run set out to fetch or parse: those listed that were not
\* listed as done
ToDo(j) == NotIn(j.units, j.existing)

IsHawkeye500(outcome) == outcome.exc = "HTTPError" /\ outcome.status_code = 500

\* C18: in MatchStatsExtractor.run, when the fetch for one match code ends
\* in an HTTP 500 error, nothing is written for that code and the loop
\* continues with the remaining codes of to_fetch, whose documents are
\* fetched and saved; any other fetch error propagates out of run and
\* aborts it, so that the failed fetch is the last one of the run.
C18_ServerErrorSkipped ==
    job.name = "MatchStatsExtractor" =>
        /\ Len(job.fetched) <= Len(ToDo(job))
        /\ \A i \in 1..Len(job.fetched) :
            /\ job.fetched[i].unit = ToDo(job)[i]
            /\ IsHawkeye500(job.fetched[i].outcome) =>
                /\ ~Exists(tree, StatsRawDir, job.fetched[i].unit \o ".json")
                /\ (job.fetched[i].unit \o ".json") \notin Range(job.written)
                /\ i < Len(ToDo(job)) => Len(job.fetched) > i
                /\ i = Len(ToDo(job)) => job.status = "returned"
            /\ (~job.fetched[i].outcome.ok /\ ~IsHawkeye500(job.fetched[i].outcome)) =>
                /\ job.status = "raised"
                /\ i = Len(job.fetched)
                /\ ~Exists(tree, StatsRawDir, job.fetched[i].unit \o ".json")
            /\ job.fetched[i].outcome.ok =>
                /\ Exists(tree, StatsRawDir, job.fetched[i].unit \o ".json")
                /\ read_json(tree, StatsRawDir, job.fetched[i].unit \o ".json")
                       = job.fetched[i].outcome.body[1]
        /\ job.status = "returned" => Len(job.fetched) = Len(ToDo(job))

\* a run whose first fetch ended in a 500 and whose second was saved
C18_Witness ==
    /\ job.name = "MatchStatsExtractor" /\ job.status = "returned"
    /\ Len(job.fetched) = 2
    /\ IsHawkeye500(job.fetched[1].outcome)
    /\ job.fetched[2].outcome.ok
    /\ job.written = <<"ms002.json">>
    /\ ~Exists(tree, StatsRawDir, "ms001.json") /\ Exists(tree, StatsRawDir, "ms002.json")


\* C19 (as claimed): in RankingsExtractor.run, a failed fetch of one
\* ranking date's page is caught and skipped: the run does not raise, and
\* the pages of the remaining dates of to_fetch are fetched and saved in
\* the same run.
C19_FailedDateSkipped ==
    job.name = "RankingsExtractor" =>
        \A i \in 1..Len(job.fetched) :
            ~job.fetched[i].outcome.ok =>
                /\ job.status = "returned"
                /\ Len(job.fetched) = Len(ToDo(job))
                /\ \A k \in (i + 1)..Len(job.fetched) :
                       job.fetched[k].outcome.ok =>
                           Exists(tree, RankingsRawDir, RankingsFile(job.fetched[k].unit))


\* C12 (as claimed): ScheduleStager.run parses a raw schedule snapshot and
\* writes its staged parquet only if no staged file with the same stem
\* exists in the stage tier when the run starts; the snapshots staged by an
\* earlier run are skipped and their staged files are not written again.
C12_StagedSnapshotsSkipped ==
    job.name = "ScheduleStager" =>
        /\ \A i \in 1..Len(job.parsed) :
               ~Exists(job.before, StageDir, job.parsed[i] \o ".parquet")
        /\ \A i \in 1..Len(job.written) : ~Exists(job.before, StageDir, job.written[i])


\* the jobs that list what is done already, and for a unit of such a job
\* the directory and the name of its output and the key under which the
\* run logs it
Resumable ==
    {"MatchStatsExtractor", "MatchStatsStager", "RankingsExtractor", "RankingsTransformer"}

OutDir(name) ==
    CASE name = "MatchStatsExtractor" -> StatsRawDir
      [] name = "MatchStatsStager" -> StatsStageDir
      [] name = "RankingsExtractor" -> RankingsRawDir
      [] OTHER -> RankingsStageDir

OutName(name, unit) ==
    CASE name = "MatchStatsExtractor" -> unit \o ".json"
      [] name = "RankingsExtractor" -> RankingsFile(unit)
      [] OTHER -> Stem(unit) \o ".parquet"

UnitKey(name, unit) ==
    IF name \in {"MatchStatsExtractor", "RankingsExtractor"} THEN unit ELSE Stem(unit)

\* the keys of the units a run fetched or parsed, in the order of the run
Attempted(j) ==
    IF j.name \in {"MatchStatsExtractor", "RankingsExtractor"}
    THEN [i \in 1..Len(j.fetched) |-> j.fetched[i].unit]
    ELSE j.parsed

\* the units of a run whose output was absent when the run started
Absent(j) ==
    SelectSeq(j.units, LAMBDA u : ~Exists(j.before, OutDir(j.name), OutName(j.name, u)))

\* whether the run got what it writes for the i-th unit it attempted: the
\* fetch returned; the statistics document gave records; the rankings page
\* was parsed
Yielded(j, i) ==
    CASE j.name \in {"MatchStatsExtractor", "RankingsExtractor"} -> j.fetched[i].outcome.ok
      [] j.name = "MatchStatsStager" ->
            /\ _parse_match(read_json(j.before, StatsRawDir, j.parsed[i] \o ".json"),
                            j.parsed[i]).ok
            /\ _parse_match(read_json(j.before, StatsRawDir, j.parsed[i] \o ".json"),
                            j.parsed[i]).rows # <<>>
      [] OTHER ->
            ParsedPage(j.before, j.parsed[i] \o ".html",
                       _parse_date_from_stem(j.parsed[i])).ok

\* the outputs that were there when the run started are there unchanged
\* and were not written
OutputsKept(j, files) ==
    \A f \in j.before :
        f.dir = OutDir(j.name) => (f \in files /\ f.name \notin Range(j.written))

\* C11 (as claimed): in a run of MatchStatsExtractor, MatchStatsStager,
\* RankingsExtractor or RankingsTransformer a unit is fetched/parsed and its
\* output written if and only if no output file with the unit's stem
\* exists in the target directory when the run lists it; an output file
\* that exists already is neither recomputed nor rewritten.
C11_ProcessedIffAbsent ==
    job.name \in Resumable =>
        /\ \A i \in 1..Len(job.units) :
            (/\ UnitKey(job.name, job.units[i]) \in Range(Attempted(job))
             /\ OutName(job.name, job.units[i]) \in Range(job.written))
                <=> ~Exists(job.before, OutDir(job.name), OutName(job.name, job.units[i]))
        /\ OutputsKept(job, tree)

\* C11 (amended): in a run of one of the four jobs the units fetched/parsed
\* are, in the order of the listing, the units without an output file in
\* the target directory when the run lists it: all of them when the run
\* returns, those up to the failing one when it raises.  The output of an
\* attempted unit is written if and only if its fetch returned (a 500 on
\* a statistics document is skipped), its statistics document gave records,
\* or its rankings page was parsed.  An output file that exists already is
\* neither recomputed nor rewritten.
C11_AbsentUnitsAttempted ==
    job.name \in Resumable =>
        /\ Len(Attempted(job)) <= Len(Absent(job))
        /\ job.status = "returned" => Len(Attempted(job)) = Len(Absent(job))
        /\ \A i \in 1..Len(Attempted(job)) :
            /\ Attempted(job)[i] = UnitKey(job.name, Absent(job)[i])
            /\ Yielded(job, i) <=>
                   OutName(job.name, Absent(job)[i]) \in Range(job.written)
            /\ Yielded(job, i) <=>
                   Exists(tree, OutDir(job.name), OutName(job.name, Absent(job)[i]))
        /\ Len(job.written) <= Len(Attempted(job))
        /\ OutputsKept(job, tree)

\* a run of MatchStatsExtractor that found the document of one code saved
\* and fetched and saved the other
C11_Witness ==
    /\ job.name = "MatchStatsExtractor" /\ job.status = "returned"
    /\ job.units = <<"ms001", "ms002">>
    /\ Exists(job.before, StatsRawDir, "ms002.json")
    /\ Len(job.fetched) = 1 /\ job.fetched[1].unit = "ms001" /\ job.fetched[1].outcome.ok
    /\ job.written = <<"ms001.json">>
    /\ Exists(tree, StatsRawDir, "ms001.json")


\* the contents of the files of a directory whose names match a pattern
Contents(files, directory, pattern) ==
    {f.rows : f \in {g \in files : g.dir = directory /\ Glob(g.name, pattern)}}

\* a schedule page with neither the day heading nor a match block
BlankPage(page) == ~page.day_div /\ page.tags = <<>>

\* a match block whose notes announce neither a walkover nor the end of
\* the match
StillPlayed(match_div) ==
    /\ ~HasSub(match_div.notes_text, "by Walkover")
    /\ ~StartsWith(match_div.notes_text, "Game Set and Match")

\* a results page without day blocks, or with matches in progress only
NoFinishedMatch(html) ==
    \A d \in 1..Len(html) : \A m \in 1..Len(html[d].match_divs) :
        StillPlayed(html[d].match_divs[m])

\* a job that finds nothing to process in the directory
NothingToProcess(name, files) ==
    CASE name = "ScheduleTransformer" ->
            \A rows \in Contents(files, StageDir, "schedule_*.parquet") :
                \A i \in 1..Len(rows) : rows[i].p1_id = NONE \/ rows[i].p2_id = NONE
      [] name = "ScheduleStager" ->
            \A rows \in Contents(files, ScheduleRawDir, "schedule_*.html") : BlankPage(rows[1])
      [] name = "ResultsTransformer" ->
            \A rows \in Contents(files, RawDir, "results_*.html") : NoFinishedMatch(rows[1])
      [] name = "MatchStatsStager" -> Contents(files, StatsRawDir, "*.json") = {}
      [] name = "MatchStatsTransformer" -> Contents(files, StatsStageDir, "*.parquet") = {}
      [] OTHER -> FALSE

\* C20: when a job has nothing to process (ScheduleTransformer with no
\* staged files or with only rows having an undetermined side,
\* ScheduleStager on snapshots with neither day heading nor match block,
\* ResultsTransformer with no raw HTML, no day blocks or only in-progress
\* matches, MatchStatsStager / MatchStatsTransformer with no input files),
\* run returns without raising, writes no file, and leaves every file that
\* exists already as it is; and a snapshot with neither day heading nor
\* match block never gets a staged file.
C20_NothingToProcess ==
    /\ NothingToProcess(job.name, job.before) =>
        /\ job.status = "returned"
        /\ job.written = <<>>
        /\ tree = job.before
    /\ job.name = "ScheduleStager" =>
        \A f \in job.before :
            (f.dir = ScheduleRawDir /\ BlankPage(f.rows[1])) =>
                (Stem(f.name) \o ".parquet") \notin Range(job.written)

\* ResultsTransformer ran on pages that show matches in progress only,
\* with a results.parquet of an earlier run in place
C20_Witness ==
    /\ job.name = "ResultsTransformer"
    /\ NothingToProcess(job.name, job.before)
    /\ Exists(job.before, RawDir, SinglesName)
    /\ read_html(job.before, RawDir, SinglesName) # <<>>
    /\ Exists(job.before, TargetDir, ResultsName)
    /\ job.status = "returned" /\ tree = job.before

(***************************************************************************)
(* Calls of the parsing functions                                          *)
(*                                                                         *)
(* A parsing function reads its arguments only; a call is recorded in      *)
(* call as the name of the function, its arguments and what it returned.   *)
(***************************************************************************)
NotCalled == [name |-> "", args |-> <<>>, result |-> <<>>]

CallInit == call = NotCalled

Called(name, args, result) ==
    /\ call' = [name |-> name, args |-> args, result |-> result]
    /\ UNCHANGED <<uidVars, recVars, saveVars, schedVars, schemaVars, jobVars>>

(***************************************************************************)
(* MatchStatsStager._parse_match on one statistics document                *)
(***************************************************************************)
MaxSetNum == 2

\* a statistics document of the match ms001: the round name, the match
\* type, the two teams and for either team the set blocks 0..n, whose Stats
\* are the payload (svc_aces) or empty
TeamOf(player_id, partner_id, stats) ==
    [PlayerId |-> player_id, PartnerId |-> partner_id,
     SetScores |-> [k \in 1..Len(stats) |->
                        SetBlock(k - 1, IF k = 1 THEN <<>> ELSE <<6>>, <<>>, stats[k])]]

MatchDoc(round_name, is_doubles, ids, mine, theirs) ==
    [RoundName |-> round_name, IsDoubles |-> is_doubles, WinningPlayerId |-> ids[1],
     PlayerTeam |-> TeamOf(ids[1], IF is_doubles THEN "ef56" ELSE NONE, mine),
     OpponentTeam |-> TeamOf(ids[2], IF is_doubles THEN "GH78" ELSE NONE, theirs)]

StatsPayloads == {<<>>, <<4>>}

MatchDocs ==
    UNION {{MatchDoc(round_name, is_doubles, ids, mine, theirs) :
                round_name \in {"Quarterfinals", "Final", "Round of 48"},
                is_doubles \in BOOLEAN,
                ids \in {<<"AB12", "cd34">>, <<"cd34", "AB12">>},
                mine \in [1..n -> StatsPayloads], theirs \in [1..n -> StatsPayloads]}
           : n \in 1..(MaxSetNum + 1)}

\* records = self._parse_match(data, match_code), dumped
ParseStatsDocument ==
    /\ call = NotCalled
    /\ \E data \in MatchDocs :
        Called("MatchStatsStager._parse_match", data, _parse_match(data, "ms001"))

\* the set blocks of a team that carry statistics
WithStats(team) == SelectSeq(team.SetScores, LAMBDA b : b.Stats # <<>>)

\* one row is the other seen from the other side of the net
Swapped(a, b) ==
    /\ a.player_id = b.opponent_id /\ a.opponent_id = b.player_id
    /\ a.player_partner_id = b.opponent_partner_id
    /\ a.opponent_partner_id = b.player_partner_id
    /\ a.set_num = b.set_num /\ a.match_code = b.match_code
    /\ a.round = b.round /\ a.is_doubles = b.is_doubles

\* both teams list the blocks 0..N, each with statistics
FullDocument(data) ==
    /\ Len(data.PlayerTeam.SetScores) = Len(data.OpponentTeam.SetScores)
    /\ WithStats(data.PlayerTeam) = data.PlayerTeam.SetScores
    /\ WithStats(data.OpponentTeam) = data.OpponentTeam.SetScores

\* C21: for a document of a round that ROUND_DISPLAY_MAP knows,
\* MatchStatsStager._parse_match returns one row for every set block that
\* carries statistics and none for a block that does not; when both teams
\* list the blocks 0..N, all with statistics, these are 2*(N+1) rows, row
\* N+1+k being row k (the row of set k-1) with player and opponent, and their
\* partners, exchanged; all rows carry one match_uid.
C21_TwoRowsPerSet ==
    (call.name = "MatchStatsStager._parse_match"
        /\ call.args.RoundName \in DOMAIN ROUND_DISPLAY_MAP)
    => /\ call.result.ok
       /\ Len(call.result.rows)
            = Len(WithStats(call.args.PlayerTeam)) + Len(WithStats(call.args.OpponentTeam))
       /\ \A i, j \in 1..Len(call.result.rows) :
            call.result.rows[i].match_uid = call.result.rows[j].match_uid
       /\ FullDocument(call.args)
            => \E n \in {Len(call.args.PlayerTeam.SetScores)} :
                /\ Len(call.result.rows) = 2 * n
                /\ \A k \in 1..n :
                    /\ call.result.rows[k].set_num = k - 1
                    /\ call.result.rows[k].player_id = Upper(call.args.PlayerTeam.PlayerId)
                    /\ Swapped(call.result.rows[k], call.result.rows[n + k])

\* C21 witness: a doubles document with the blocks 0..2, all with
\* statistics, gave six rows
C21_Witness ==
    /\ call.name = "MatchStatsStager._parse_match"
    /\ call.args.IsDoubles /\ FullDocument(call.args)
    /\ Len(call.args.PlayerTeam.SetScores) = MaxSetNum + 1
    /\ call.result.ok /\ Len(call.result.rows) = 6
    /\ call.result.rows[1].player_id # call.result.rows[4].player_id

(***************************************************************************)
(* MatchStatsTransformer._add_derived_columns on one frame                 *)
(***************************************************************************)
\* a row of the staged frame, as far as the derived columns read it
FrameRow(player_id, opponent_id, set_num, set_score, tiebreak_score) ==
    [match_uid |-> "2026_375_SGL_QF_AB12_CD34", match_code |-> "ms001", round |-> "QF",
     is_doubles |-> FALSE, player_id |-> player_id, opponent_id |-> opponent_id,
     player_partner_id |-> NONE, opponent_partner_id |-> NONE,
     is_winner |-> player_id = "AB12", set_num |-> set_num, set_score |-> set_score,
     tiebreak_score |-> tiebreak_score, svc_aces |-> 4]

TiebreakScores == {<<>>, <<5>>, <<6>>, <<9>>}

\* the rows of one side: the totals row, then the sets 1..n with the
\* tiebreak scores tb
SideRows(player_id, opponent_id, set_score, tb) ==
    <<FrameRow(player_id, opponent_id, 0, <<>>, <<>>)>>
        \o [k \in 1..Len(tb) |-> FrameRow(player_id, opponent_id, k, <<set_score>>, tb[k])]

\* the frames of one match: both sides, or the rows of one side only
StatsFrames ==
    UNION {{SideRows("AB12", "CD34", 7, mine)
                \o (IF both THEN SideRows("CD34", "AB12", 6, theirs) ELSE <<>>) :
                mine \in [1..n -> TiebreakScores], theirs \in [1..n -> TiebreakScores],
                both \in BOOLEAN}
           : n \in 1..MaxSetNum}

\* df = self._add_derived_columns(df)
DeriveColumns ==
    /\ call = NotCalled
    /\ \E df \in StatsFrames :
        Called("MatchStatsTransformer._add_derived_columns", df, _add_derived_columns(df))

\* the tiebreak_score of the opponent's row for the match and set of row,
\* null when the frame holds no such row
OpponentTiebreak(df, row) ==
    IF \E o \in Range(df) : /\ o.match_code = row.match_code /\ o.set_num = row.set_num
                            /\ o.player_id = row.opponent_id
    THEN (CHOOSE o \in Range(df) : /\ o.match_code = row.match_code
                                   /\ o.set_num = row.set_num
                                   /\ o.player_id = row.opponent_id).tiebreak_score
    ELSE <<>>

\* L of a row: its own tiebreak_score, else that of the opponent's row
LoserPoints(df, row) ==
    IF row.tiebreak_score # <<>> THEN row.tiebreak_score ELSE OpponentTiebreak(df, row)

\* C22: _add_derived_columns gives every row, with L its own tiebreak_score
\* if non-null and else that of the opponent's row of the same match and
\* set: null tiebreak_points_won and tiebreak_points_played when L is null;
\* otherwise, with W = 7 if L < 6 else L + 2, tiebreak_points_played = L + W
\* and tiebreak_points_won = L on the row that carries the score, W on the
\* other row.
C22_TiebreakPoints ==
    call.name = "MatchStatsTransformer._add_derived_columns"
    => /\ Len(call.result) = Len(call.args)
       /\ \A i \in 1..Len(call.args) :
            \E L \in {LoserPoints(call.args, call.args[i])} :
                IF L = <<>>
                THEN /\ call.result[i].tiebreak_points_won = <<>>
                     /\ call.result[i].tiebreak_points_played = <<>>
                ELSE \E W \in {IF L[1] < 6 THEN 7 ELSE L[1] + 2} :
                        /\ call.result[i].tiebreak_points_played = <<L[1] + W>>
                        /\ call.result[i].tiebreak_points_won
                            = IF call.args[i].tiebreak_score # <<>> THEN L ELSE <<W>>

\* C22 witness: a set lost 6-8 in the tiebreak by the second side: its row
\* has 6 points won, the row of the first side 8, both 14 played, and a set
\* without tiebreak has nulls
C22_Witness ==
    /\ call.name = "MatchStatsTransformer._add_derived_columns"
    /\ \E i, j, k \in 1..Len(call.result) :
        /\ call.result[i].set_num = 1 /\ call.result[j].set_num = 1
        /\ call.result[i].tiebreak_score = <<>> /\ call.result[j].tiebreak_score = <<6>>
        /\ call.result[i].tiebreak_points_won = <<8>>
        /\ call.result[j].tiebreak_points_won = <<6>>
        /\ call.result[i].tiebreak_points_played = <<14>>
        /\ call.result[j].tiebreak_points_played = <<14>>
        /\ call.result[k].set_num = 2 /\ call.result[k].tiebreak_points_played = <<>>

(***************************************************************************)
(* MatchStatsExtractor.run cut short inside save_json                      *)
(*                                                                         *)
(* The process can die at any step of a save (see SaveCrash); the run then *)
(* leaves the raw directory as that step left it.                          *)
(***************************************************************************)
\* where the process dies: before tmp_path is opened, while it is written,
\* before the rename, after the rename
KillPoints == {"open", "write", "replace", "after"}

\* the directory after save_json(data, path) in which the process died
save_json_killed(files, directory, name, data, step) ==
    CASE step = "open" -> files
      [] step = "write" -> save_parquet(files, directory, tmp_path(name), <<>>)
      [] step = "replace" -> save_parquet(files, directory, tmp_path(name), <<data>>)
      [] OTHER -> save_json(files, directory, name, data)

\* MatchStatsExtractor.run() that dies in the save of its k-th match code
MatchStatsExtractorKilled ==
    /\ InFamily("results")
    /\ \E match_codes \in {_get_match_codes(tree)},
          existing \in {Stems(list_files(tree, StatsRawDir, "*.json"))} :
        \E k \in 1..Len(NotIn(match_codes, existing)), step \in KillPoints :
          \E served \in [Range(SubSeq(NotIn(match_codes, existing), 1, k)) -> StatsServings] :
            \E r \in {FetchStats(tree, SubSeq(NotIn(match_codes, existing), 1, k - 1),
                                 served, <<>>, <<>>)},
               data \in {fetch_json(served[NotIn(match_codes, existing)[k]])} :
                /\ r.status = "returned" /\ data.ok
                /\ Ran("MatchStatsExtractor", "killed",
                       save_json_killed(r.files, StatsRawDir,
                                        NotIn(match_codes, existing)[k] \o ".json",
                                        data.body[1], step),
                       match_codes, existing,
                       Append(r.fetched, [unit |-> NotIn(match_codes, existing)[k],
                                          outcome |-> data]),
                       <<>>,
                       IF step = "after"
                       THEN Append(r.written, NotIn(match_codes, existing)[k] \o ".json")
                       ELSE r.written)

\* the raw JSON files of the match statistics in a directory tree
RawStats(files) == {f \in files : f.dir = StatsRawDir /\ Glob(f.name, "*.json")}

\* C24: in every MatchStatsExtractor run, also one that a fatal fetch error
\* or a death inside a save cut short, the raw files that were there before
\* the run are there after it with the same content, none of their match
\* codes is fetched, what is fetched are codes of the results table without
\* a file, and after a run that returned with every fetch successful every
\* match code of the results table has a raw file.
C24_RawFilesFetchedOnce ==
    job.name = "MatchStatsExtractor" =>
        /\ RawStats(job.before) \subseteq RawStats(tree)
        /\ \A i \in 1..Len(job.fetched) :
            /\ job.fetched[i].unit \notin {Stem(f.name) : f \in RawStats(job.before)}
            /\ job.fetched[i].unit \in Range(job.units)
        /\ (job.status = "returned" /\ \A i \in 1..Len(job.fetched) : job.fetched[i].outcome.ok)
            => \A code \in Range(job.units) : Exists(tree, StatsRawDir, code \o ".json")

\* C24 witness: a run found the file of one match code and the temporary
\* file a killed run left for another, fetched the other code only, and
\* returned with a raw file for both
C24_Witness ==
    /\ job.name = "MatchStatsExtractor" /\ job.status = "returned"
    /\ RawStats(job.before) # {}
    /\ \E f \in job.before : f.dir = StatsRawDir /\ f.name = "ms002.json.tmp"
    /\ Len(job.fetched) = 1 /\ job.fetched[1].unit = "ms002" /\ job.fetched[1].outcome.ok
    /\ \A code \in Range(job.units) : Exists(tree, StatsRawDir, code \o ".json")
    /\ ~\E f \in tree : f.dir = StatsRawDir /\ f.name = "ms002.json.tmp"

(***************************************************************************)
(* ResultsTransformer._parse_match on one match block                      *)
(***************************************************************************)
MaxSides == 3

\* match blocks: the notes, the round, and up to MaxSides stats items of
\* which any may carry the winner marker
MatchBlocks ==
    UNION {{MatchDiv(notes_text, round_text, "ms001",
                     [k \in 1..n |-> StatsItem(marks[k], <<"ab12", "cd34", "ef56", "gh78">>[k],
                                               <<"ij90", "kl12", "mn34", "op56">>[k])]) :
                notes_text \in {"Game Set and Match", "Game Set and Match RET",
                                "Winner by Walkover", ""},
                round_text \in {"Quarterfinals", "Final", "Round of 48"},
                marks \in [1..n -> BOOLEAN]}
           : n \in 0..MaxSides}

\* record = self._parse_match(match_div, match_date, tournament_day, is_doubles)
ParseResultsMatch ==
    /\ call = NotCalled
    /\ \E match_div \in MatchBlocks, is_doubles \in BOOLEAN :
        Called("ResultsTransformer._parse_match",
               [match_div |-> match_div, is_doubles |-> is_doubles],
               Results_parse_match(match_div, 1, is_doubles))

\* the block is of a finished match of a known round
Classified(match_div) ==
    /\ \/ HasSub(match_div.notes_text, "by Walkover")
       \/ StartsWith(match_div.notes_text, "Game Set and Match")
    /\ match_div.round_text \in DOMAIN ROUND_DISPLAY_MAP

\* some side carries the winner marker and some side does not
BothSidesFound(match_div) ==
    /\ \E k \in 1..Len(match_div.stats_items) : match_div.stats_items[k].winner
    /\ \E k \in 1..Len(match_div.stats_items) : ~match_div.stats_items[k].winner

\* C26 (as claimed): for a block classified completed, retired or walkover,
\* _parse_match does not raise on the winner markers: when no side or every
\* side carries the marker it returns no record, and otherwise a record.
C26_NoRaiseOnWinnerMarkers ==
    (call.name = "ResultsTransformer._parse_match" /\ Classified(call.args.match_div))
    => /\ call.result.ok
       /\ ~BothSidesFound(call.args.match_div) => call.result.record = <<>>

(***************************************************************************)
(* create_match_uid on two matches                                         *)
(***************************************************************************)
\* the calls compared: two years, tournaments, rounds and draws, and ids in
\* both letter cases, one with a trailing newline
PairCalls ==
    {UidCall(y, t, r, a, b, d) :
        y \in UidYears, t \in {37, 375}, r \in UidRounds, d \in BOOLEAN,
        a \in {"A", "a", "Z\n"}, b \in {"A7", "a7", "Z"}}
        \cup {UidCall(y, t, r, b, a, d) :
                y \in {2025}, t \in {375}, r \in UidRounds, d \in BOOLEAN,
                a \in {"A", "a"}, b \in {"A7", "Z", "SR:1"}}

\* create_match_uid(...) for one match and for another
TwoUidCalls ==
    /\ call = NotCalled
    /\ \E first \in PairCalls, second \in PairCalls :
        Called("create_match_uid", <<first, second>>, <<CallOf(first), CallOf(second)>>)

\* what the UID is meant to identify: year, tournament, draw, round and the
\* unordered pair of the uppercased ids
MatchIdentity(c) ==
    <<c.year, c.tournament_id, c.is_doubles, c.round, {Upper(c.p1_id), Upper(c.p2_id)}>>

\* C27: two successful calls of create_match_uid return the same string
\* only if year, tournament id, draw, round and the unordered pair of
\* uppercased player ids are equal.
C27_UidInjective ==
    (/\ call.name = "create_match_uid"
     /\ call.result[1].ok /\ call.result[2].ok
     /\ call.result[1].value = call.result[2].value)
    => MatchIdentity(call.args[1]) = MatchIdentity(call.args[2])

\* C27 witness: two calls that differ in the order and the letter case of
\* the ids returned one UID
C27_Witness ==
    /\ call.name = "create_match_uid"
    /\ call.result[1].ok /\ call.result[2].ok
    /\ call.result[1].value = call.result[2].value
    /\ call.args[1].p1_id = call.args[2].p2_id
    /\ call.args[1].p2_id # call.args[2].p1_id

(***************************************************************************)
(* ResultsTransformer._parse_scores                                        *)
(*                                                                         *)
(* A scores div is the sequence of its score items, the leading spacer     *)
(* included; a score item is the sequence of the numbers in its spans.     *)
(***************************************************************************)
MaxItems == 2

\* the score items of a side: nothing in the item, the games, the games and
\* the points of a tiebreak
ScoreItems == {<<>>, <<3>>, <<6>>, <<7>>, <<7, 5>>, <<6, 3>>}

\* scores divs: the spacer and up to MaxItems items, and one of seven items
ScoresDivs ==
    UNION {{<<<<>>>> \o items : items \in [1..n -> ScoreItems]} : n \in 0..MaxItems}
        \cup {<<<<>>, <<6>>, <<3>>, <<7, 5>>, <<6>>, <<7>>, <<6>>, <<1>>>>}

\* score_data = self._parse_scores(winner_scores_div, loser_scores_div, status)
ParseScores ==
    /\ call = NotCalled
    /\ \E winner_scores_div \in ScoresDivs, loser_scores_div \in ScoresDivs,
          status \in {"completed", "retired"} :
        Called("ResultsTransformer._parse_scores",
               [winner |-> winner_scores_div, loser |-> loser_scores_div, status |-> status],
               _parse_scores(winner_scores_div, loser_scores_div, status))

\* both sides have an i-th score item after the spacer with a span
SetShown(args, i) ==
    /\ Len(args.winner) > i /\ Len(args.loser) > i
    /\ args.winner[i + 1] # <<>> /\ args.loser[i + 1] # <<>>

\* the sets shown, in order, each written w-l or w-l(tb)
ShownParts(args, sets) ==
    [k \in 1..Len(SelectSeq([i \in 1..5 |-> i], LAMBDA i : SetShown(args, i))) |->
        Only({NatToStr(sets[i].w[1]) \o "-" \o NatToStr(sets[i].l[1])
                \o (IF sets[i].tb = <<>> THEN "" ELSE "(" \o NatToStr(sets[i].tb[1]) \o ")")
              : i \in {SelectSeq([j \in 1..5 |-> j], LAMBDA j : SetShown(args, j))[k]}})]

\* C28: _parse_scores gives set i (1..5) iff both sides have an i-th score
\* item after the spacer with a span; then w_set and l_set are the first
\* spans of the winner's and the loser's item, tb_set is the second span of
\* the winner's item, else the second span of the loser's item, else null;
\* score lists the sets given, in order, as w-l or w-l(tb) with single
\* spaces between, and ends in " RET" iff the status is retired.
C28_ParseScores ==
    call.name = "ResultsTransformer._parse_scores"
    => /\ \A i \in 1..5 :
            IF SetShown(call.args, i)
            THEN /\ call.result.sets[i].w = <<call.args.winner[i + 1][1]>>
                 /\ call.result.sets[i].l = <<call.args.loser[i + 1][1]>>
                 /\ call.result.sets[i].tb
                      = IF Len(call.args.winner[i + 1]) > 1 THEN <<call.args.winner[i + 1][2]>>
                        ELSE IF Len(call.args.loser[i + 1]) > 1
                        THEN <<call.args.loser[i + 1][2]>>
                        ELSE <<>>
            ELSE call.result.sets[i] = [w |-> <<>>, l |-> <<>>, tb |-> <<>>]
       /\ \E body \in {IF call.args.status = "retired"
                       THEN SubSeq(call.result.score, 1, Len(call.result.score) - 4)
                       ELSE call.result.score} :
            /\ call.result.score
                = body \o (IF call.args.status = "retired" THEN " RET" ELSE "")
            /\ IF ShownParts(call.args, call.result.sets) = <<>> THEN body = ""
               ELSE Split(body, " ") = ShownParts(call.args, call.result.sets)

\* C28 witness: the winner's (7) against the loser's (6, 3) in the second
\* set gave w_set2 = 7, l_set2 = 6, tb_set2 = 3 and the score "6-3 7-6(3)"
C28_Witness ==
    /\ call.name = "ResultsTransformer._parse_scores"
    /\ call.args.winner = <<<<>>, <<6>>, <<7>>>>
    /\ call.args.loser = <<<<>>, <<3>>, <<6, 3>>>>
    /\ call.result.sets[2] = [w |-> <<7>>, l |-> <<6>>, tb |-> <<3>>]
    /\ call.result.score = "6-3 7-6(3)"

(***************************************************************************)
(* ResultsTransformer._parse_seed_entry                                    *)
(*                                                                         *)
(* A name div is the text of its first span, <<>> when it has no span.     *)
(* A pair (seed, entry) is [seed, entry] with seed <<>> or <<n>> and entry *)
(* NONE or a string.                                                       *)
(***************************************************************************)
\* str.strip(chars)
RECURSIVE LStrip(_, _)
LStrip(s, chars) ==
    IF s # "" /\ Contains(chars, CharAt(s, 1)) THEN LStrip(Tail(s), chars) ELSE s

RECURSIVE RStrip(_, _)
RStrip(s, chars) ==
    IF s # "" /\ Contains(chars, CharAt(s, Len(s)))
    THEN RStrip(SubSeq(s, 1, Len(s) - 1), chars)
    ELSE s

Strip(s, chars) == RStrip(LStrip(s, chars), chars)

\* str.split(sep, 1)
SplitOnce(s, sep) ==
    IF ~HasSub(s, sep) THEN <<s>>
    ELSE LET i == CHOOSE k \in 1..Len(s) :
                    /\ CharAt(s, k) = sep
                    /\ \A j \in 1..(k - 1) : CharAt(s, j) # sep
         IN  <<SubSeq(s, 1, i - 1), SubSeq(s, i + 1, Len(s))>>

RECURSIVE Digits(_)
Digits(groups) == IF groups = <<>> THEN "" ELSE groups[1] \o Digits(Tail(groups))

\* int(s): <<n>>, or <<>> for ValueError.  Blanks around the number, a sign
\* and single underscores between digits are accepted.
int(s) ==
    LET t == Strip(s, " ")
        signed == t # "" /\ CharAt(t, 1) \in {"+", "-"}
        groups == Split(IF signed THEN Tail(t) ELSE t, "_")
    IN  IF \E k \in 1..Len(groups) :
                groups[k] = "" \/ ~(Chars(groups[k]) \subseteq Chars(DIGITS))
        THEN <<>>
        ELSE IF signed /\ CharAt(t, 1) = "-" THEN <<-StrToNat(Digits(groups))>>
        ELSE <<StrToNat(Digits(groups))>>

\* ResultsTransformer._parse_seed_entry(name_div)
Results_parse_seed_entry(name_div) ==
    IF name_div = <<>> THEN [seed |-> <<>>, entry |-> NONE]
    ELSE LET value == Strip(name_div[1], "()")
             parts == SplitOnce(value, "/")
         IN  IF value = "" THEN [seed |-> <<>>, entry |-> NONE]
             ELSE IF HasSub(value, "/")
             THEN IF int(parts[1]) # <<>>
                  THEN [seed |-> int(parts[1]),
                        entry |-> IF parts[2] = "" THEN NONE ELSE parts[2]]
                  ELSE [seed |-> <<>>, entry |-> value]
             ELSE IF int(value) # <<>>
             THEN [seed |-> int(value), entry |-> NONE]
             ELSE [seed |-> <<>>, entry |-> value]

\* the texts before and after the "/" of an annotation
SeedTexts == {"", "1", "12", "-3", "+4", " 7", "1_0", "WC", "Q", "1a"}
EntryTexts == {"", "W", "Alt", "2", "Q/LL"}

\* the name divs: without a span, and with a span holding an annotation
\* with or without its parentheses
NameDivs ==
    {<<>>}
        \cup {<<text>> : text \in SeedTexts \cup {"(" \o t \o ")" : t \in SeedTexts}}
        \cup {<<l \o "/" \o r>> : l \in SeedTexts, r \in EntryTexts}
        \cup {<<"(" \o l \o "/" \o r \o ")">> : l \in SeedTexts, r \in EntryTexts}

\* seed, entry = self._parse_seed_entry(name_div)
ParseSeedEntry ==
    /\ call = NotCalled
    /\ \E name_div \in NameDivs :
        Called("ResultsTransformer._parse_seed_entry", name_div,
               Results_parse_seed_entry(name_div))

\* the annotation of the call, its surrounding parentheses stripped
Annotation == IF call.args = <<>> THEN "" ELSE Strip(call.args[1], "()")

\* C29: _parse_seed_entry splits the annotation, its surrounding parentheses
\* stripped: missing or empty gives (null, null); text with a "/" gives the
\* left part as an integer if it parses as one, else null, and the part to
\* the right of the "/" as entry code; any other text gives (integer, null)
\* if it parses as an integer, else (null, the text).  An empty right part
\* may be given as null.
C29_SeedEntrySplit ==
    call.name = "ResultsTransformer._parse_seed_entry"
    => IF Annotation = "" THEN call.result = [seed |-> <<>>, entry |-> NONE]
       ELSE IF Contains(Annotation, "/")
       THEN \E left \in {SplitOnce(Annotation, "/")[1]},
               right \in {SplitOnce(Annotation, "/")[2]} :
                /\ call.result.seed = int(left)
                /\ \/ call.result.entry = right
                   \/ right = "" /\ call.result.entry = NONE
       ELSE IF int(Annotation) # <<>>
       THEN call.result = [seed |-> int(Annotation), entry |-> NONE]
       ELSE call.result = [seed |-> <<>>, entry |-> Annotation]

(***************************************************************************)
(* ScheduleStager._parse_snapshot: the court and the number of a match     *)
(*                                                                         *)
(* A page is the sequence of its match tags.  The heading of a tag is the  *)
(* stripped text of its <strong>, "" when it has none.                     *)
(***************************************************************************)
MaxBlocks == 3

CourtHeadings == {"", "Court 1", "Court 2"}
BlockKinds == {"match", "stub", "WTA", "no round"}

\* a match tag under the heading strong: a singles match, a tag without
\* schedule-content, a match of the WTA, a match without a round
Block(strong, kind) ==
    [Tag(strong, IF kind = "no round" THEN "" ELSE "Quarterfinals", FALSE,
         Single("AB12"), Single("CD34"), "Starts At", "2026-02-04 11:00:00")
     EXCEPT !.content = (kind # "stub"),
            !.match_type = IF kind = "WTA" THEN "WTA" ELSE ""]

CourtPages ==
    UNION {[1..n -> {Block(strong, kind) : strong \in CourtHeadings, kind \in BlockKinds}]
           : n \in 1..MaxBlocks}

\* records = self._parse_snapshot(html_path)
ParseCourtPage ==
    /\ call = NotCalled
    /\ \E tags \in CourtPages :
        Called("ScheduleStager._parse_snapshot", tags,
               _parse_snapshot(SnapshotStems[1], MatchDate(1), 1, tags))

\* the positions of the blocks of a page for which a record is emitted
EmittedBlocks(tags) ==
    SelectSeq([i \in 1..Len(tags) |-> i],
              LAMBDA i : tags[i].content /\ tags[i].match_type # "WTA"
                            /\ tags[i].round_text # "")

\* the position of the heading block of the court run of block i, 0 before
\* the first heading
HeadingOf(tags, i) ==
    IF \A j \in 1..i : tags[j].strong = "" THEN 0
    ELSE CHOOSE h \in 1..i :
            /\ tags[h].strong # ""
            /\ \A j \in (h + 1)..i : tags[j].strong = ""

\* C30: in _parse_snapshot a block with a court heading sets the current
\* court and gets court_match_num 1, a block without one keeps the court
\* last seen and gets the number of the block before it plus 1, whether or
\* not that block was passed over (no content, WTA, no round).  Hence the
\* records of one court run have strictly increasing numbers in page order,
\* and the run starts at 1 only if its heading block is emitted.
C30_CourtCounter ==
    call.name = "ScheduleStager._parse_snapshot"
    => /\ call.result.ok
       /\ Len(call.result.records) = Len(EmittedBlocks(call.args))
       /\ \A k \in 1..Len(call.result.records) :
            \E i \in {EmittedBlocks(call.args)[k]} :
            \E h \in {HeadingOf(call.args, i)} :
                /\ call.result.records[k].court_name
                    = IF h = 0 THEN NONE ELSE call.args[h].strong
                /\ call.result.records[k].court_match_num
                    = IF h = 0 THEN i ELSE i - h + 1
                /\ h # 0 => (call.result.records[k].court_match_num = 1 <=> i = h)
       /\ \A k1, k2 \in 1..Len(call.result.records) :
            /\ k1 < k2
            /\ HeadingOf(call.args, EmittedBlocks(call.args)[k1])
                = HeadingOf(call.args, EmittedBlocks(call.args)[k2])
            => call.result.records[k1].court_match_num
                < call.result.records[k2].court_match_num

\* C30 witness: the heading block of Court 1 is a match of the WTA and is
\* passed over; the two matches after it get the numbers 2 and 3
C30_Witness ==
    /\ call.name = "ScheduleStager._parse_snapshot"
    /\ call.args = <<Block("Court 1", "WTA"), Block("", "match"), Block("", "match")>>
    /\ Len(call.result.records) = 2
    /\ call.result.records[1].court_name = "Court 1"
    /\ call.result.records[1].court_match_num = 2
    /\ call.result.records[2].court_match_num = 3

\* the calls of the parsing functions
ParseNext == ParseStatsDocument \/ DeriveColumns \/ ParseResultsMatch \/ TwoUidCalls \/ ParseScores \/ ParseSeedEntry \/ ParseCourtPage

\* results.parquet and schedule.parquet, as far as they exist
OutputTables(files) == {f \in files : f.dir = TargetDir /\ f.name \in {ResultsName, TargetName}}

\* a record of the raw results pages raises when it is parsed, validated or
\* dumped
ResultsRecordRaises(files) ==
    \E page \in {PageRecords(files, SinglesName, FALSE), PageRecords(files, DoublesName, TRUE)} :
        \/ ~page.ok
        \/ \E i \in 1..Len(page.rows) : ~ResultsRow(page.rows[i]).ok

\* a row of the staged schedule files raises in _dedup_matches or
\* _transform_row, or its ScheduleRecord raises when validated or dumped
ScheduleRecordRaises(files) ==
    \E deduped \in {_dedup_matches(StagedInput(files))} :
        \/ ~deduped.ok
        \/ \E transformed \in {TransformAll(deduped.rows)} :
            \/ ~transformed.ok
            \/ \E row \in Range(_estimate_times(transformed.rows)) :
                ~ScheduleRecord_model_dump(row).ok

\* C25: when parsing or validating a record raises in ResultsTransformer.run
\* or ScheduleTransformer.run, the run raises and results.parquet /
\* schedule.parquet is as it was before the run.
C25_AllOrNothing ==
    /\ (job.name = "ResultsTransformer" /\ ResultsRecordRaises(job.before))
        => (job.status = "raised" /\ OutputTables(tree) = OutputTables(job.before))
    /\ (job.name = "ScheduleTransformer" /\ ScheduleRecordRaises(job.before))
        => (job.status = "raised" /\ OutputTables(tree) = OutputTables(job.before))
    /\ (job.name \in {"ResultsTransformer", "ScheduleTransformer"} /\ job.status = "raised")
        => OutputTables(tree) = OutputTables(job.before)

\* C25 witness: results.parquet held the rows of an earlier run when a page
\* with a record that fails validation was transformed
C25_Witness ==
    /\ job.name = "ResultsTransformer" /\ job.status = "raised"
    /\ OutputTables(job.before) # {}
    /\ \A f \in OutputTables(job.before) : f.rows # <<>>
    /\ \E page \in {PageRecords(job.before, SinglesName, FALSE)} :
        page.ok /\ \E i \in 1..Len(page.rows) : ~ResultsRow(page.rows[i]).ok

\* the same for the schedule: schedule.parquet was there when a staged row
\* of an unknown round made the run raise
C25_ScheduleWitness ==
    /\ job.name = "ScheduleTransformer" /\ job.status = "raised"
    /\ OutputTables(job.before) # {}
    /\ ScheduleRecordRaises(job.before)

(***************************************************************************)
(* Specifications                                                          *)
(***************************************************************************)
Init ==
    /\ UidInit /\ RecInit /\ SaveInit /\ SchedInit /\ CorrInit /\ ResInit /\ DblInit
    /\ JobInit /\ CallInit

Next ==
    \/ UidNext \/ RecNext \/ SaveNext \/ SchedNext \/ CorrNext \/ ResNext \/ DblNext
    \/ JobNext \/ MatchStatsExtractorKilled \/ ParseNext

Spec == Init /\ [][Next]_vars

\* create_match_uid alone
SpecUid == Init /\ [][UidNext]_vars

\* the record constructors alone
SpecRecord == Init /\ [][RecNext]_vars

\* the save methods alone
SpecSave == Init /\ [][SaveNext]_vars

\* the stager and the transformer on pages that repeat matches
SpecDedup == Init /\ [][StageDedupPage \/ RunTransformer]_vars

\* the stager and the transformer on pages of distinct matches over courts
SpecEstimate == Init /\ [][StageCourtPage \/ RunTransformer]_vars

\* the stager and the transformer on one page of every kind of timing
SpecTransform == Init /\ [][StageTimingPage \/ RunTransformer]_vars

\* correct_player_id alone
SpecCorrect == Init /\ [][CorrNext]_vars

\* ResultsRecord alone
SpecResults == Init /\ [][ResNext]_vars

\* the partner rule of the four record classes
SpecPartners == Init /\ [][DblNext]_vars

\* the jobs of the three datasets on one data directory
SpecJobs == Init /\ [][JobNext]_vars

\* MatchStatsStager._parse_match alone
SpecStatsDocument == Init /\ [][ParseStatsDocument]_vars

\* MatchStatsTransformer._add_derived_columns alone
SpecDerived == Init /\ [][DeriveColumns]_vars

\* the runs that make the results table and fetch the match statistics
SpecStatsRuns ==
    Init /\ [][ResultsExtractorRun \/ ResultsTransformerRun \/ MatchStatsExtractorRun
                \/ MatchStatsExtractorKilled]_vars

\* ResultsTransformer._parse_match alone
SpecResultsMatch == Init /\ [][ParseResultsMatch]_vars

\* create_match_uid on two matches
SpecUidPair == Init /\ [][TwoUidCalls]_vars

\* the calls of _parse_scores
SpecScores == Init /\ [][ParseScores]_vars

\* the calls of ResultsTransformer._parse_seed_entry
SpecSeedEntry == Init /\ [][ParseSeedEntry]_vars

\* the calls of ScheduleStager._parse_snapshot on pages of several courts
SpecCourtPage == Init /\ [][ParseCourtPage]_vars

====
